---- MODULE Spec2Model ----
(***************************************************************************)
(* Harkaam: the dependency-graph scheduler (harkaam/system/workflow.py)    *)
(* and the bounded control loops of the agents (harkaam/agents/*.py).      *)
(*                                                                         *)
(* SpecWorkflow explores Workflow.execute over every small graph.          *)
(* SpecAgent explores one agent run for each strategy.                     *)
(***************************************************************************)
EXTENDS Integers, Sequences, FiniteSets, TLC

(***************************************************************************)
(* Bounds of the exploration.                                              *)
(***************************************************************************)
MaxNodes == 3
MaxEdges == 2

VARIABLES
    nodes,        \* Workflow.nodes: node id -> WorkflowNode
    agents,       \* Workflow.agents: the set of registered agent ids
    input_data,   \* the initial_input mapping handed to execute
    wpc,          \* position of Workflow.execute
    execution_order, \* the order computed by _get_execution_order
    idx,          \* index of the loop "for node_id in execution_order"
    results,      \* the results mapping of the running execute
    call_log,     \* history: node ids whose agent.run was invoked, in order
    node_input,   \* history: node id -> the mapping built for the node
    agent_ctx,    \* history: node id -> the context handed to agent.run
    guard_arg,    \* history: node id -> the mapping its guard was evaluated on
    guard_evals,  \* history: node id -> number of evaluations of its guard
    writes,       \* history: node id -> number of writes of results[node id]
    skipped,      \* history: nodes whose guard evaluated false
    returned,     \* the value execute returned, or NoValue
    werror,       \* the error execute raised, or "none"
    run_raised    \* history: the node whose agent.run raised, or "none"

wvars == <<nodes, agents, input_data, wpc, execution_order, idx, results,
           call_log, node_input, agent_ctx, guard_arg, guard_evals, writes,
           skipped, returned, werror, run_raised>>

VARIABLES
    architecture, \* the strategy of the agent: AgentConfig.architecture
    max_iterations, \* its budget: max_iterations, max_depth for lat
    num_workers,  \* ReWOOAgent.num_workers
    has_tools,    \* whether the agent was given any tool
    apc,          \* position of execute
    iterations,   \* the local "iterations" (current_depth for lat)
    is_done,      \* the local "is_done"
    output,       \* the local final_answer, returned as AgentResult.output:
                  \* the pieces it is concatenated from
    gateway_calls, \* history: the stage of every llm_client.generate call
    intermediate_steps, \* the "type" of every entry of intermediate_steps
    scratch_pad,  \* the scratch pad of raise, as a sequence of lines
    worker_tasks, \* rewoo: the number of worker tasks
    worker_id,    \* rewoo: the number of workers that have returned
    tool_log,     \* history: every tool dispatch, with the text recorded
    check_response, \* the response of the latest completion check
    step_responses, \* history: the responses to react's next-step calls
    parse_text,   \* the text handed to a parser
    parsed,       \* what the parser returned
    extra_context, \* kwargs["context"] of a run
    context,      \* the context the strategy has initialised
    verbose,      \* config.verbose
    format_output, \* the format_output argument of run
    run_value,    \* what run returned
    aerror        \* the exception execute raised, or "none"

avars == <<architecture, max_iterations, num_workers, has_tools, apc,
           iterations, is_done, output, gateway_calls, intermediate_steps,
           scratch_pad, worker_tasks, worker_id, tool_log,
           check_response, step_responses, parse_text, parsed,
           extra_context, context, verbose, format_output, run_value,
           aerror>>

\* the variables of context initialisation and of run's return
ctxvars == <<extra_context, context>>
runvars == <<verbose, format_output, run_value>>

VARIABLES
    section_type, \* the field asked of _extract_content, _extract_section
    create_arg,   \* the architecture argument of BaseAgent.create
    kwargs,       \* the names of the keyword arguments of create, next to
                  \* name, description and llm
    llm,          \* the llm keyword argument
    agent,        \* the agent create has returned, or NoAgent
    factory_trace, \* history: what create has done, in order
    registry,     \* ToolRegistry.tools, in the insertion order of its keys
    registered,   \* history: the tools handed to register, in order
    got,          \* what the latest get or list returned
    max_messages, \* ConversationBufferMemory.max_messages
    messages,     \* ConversationBufferMemory.messages
    added         \* history: the messages handed to add_message, in order

\* the variables of the factory
fvars == <<create_arg, kwargs, llm, agent, factory_trace>>

\* the variables of the tool registry
tvars == <<registry, registered, got>>

\* the variables of the conversation buffer
mvars == <<max_messages, messages, added>>

\* the variables of the operations that are modelled on their own
xvars == <<section_type, fvars, tvars, mvars>>

VARIABLES
    state,        \* self.state, the AgentState of the agent
    context_lists, \* the length of every list of the context that execute
                  \* appends to (react, ooda, bdi)
    worker_results, \* rewoo: the local worker_results, an entry being the
                  \* index of the worker and its result
    solver_prompt, \* rewoo: the worker results the Solver was given
    ran_before,   \* history: run has been called on this agent before
    current_path  \* lat: the local current_path, the nodes selected so far

\* the variables of what an agent keeps, and of rewoo's join
svars == <<state, context_lists, worker_results, solver_prompt, ran_before,
           current_path>>

vars == <<wvars, avars, xvars, svars>>

(***************************************************************************)
(* Values.  Node ids, display names and input keys are strings; every      *)
(* stored value is a record [kind, of].                                    *)
(***************************************************************************)
IdNames == <<"n1", "n2", "n3", "n4", "n5">>
NodeIds == {IdNames[i] : i \in 1..MaxNodes}
DanglingId == "missing"
\* display names are caller-chosen and need not be unique: n1, n3 and n5
\* share one name
NameOf(node_id) == IF node_id \in {"n1", "n3", "n5"} THEN "a" ELSE "b"
AgentOf(node_id) == IF node_id \in {"n1", "n3", "n5"} THEN "u1" ELSE "u2"

EmptyMap == [k \in {} |-> 0]
NoValue == [kind |-> "none", of |-> "none"]

\* a run without kwargs["context"]
NoAgent == [class |-> "none"]
NoContext == [kind |-> "absent"]
InitialValue(k) == [kind |-> "initial", of |-> k]

\* AgentResult.format_output(verbose): the text made of the result, with
\* the section THINKING PROCESS if and only if verbose is set
FormatOutput(result, verbose_flag) ==
    [kind |-> "text", of |-> result, thinking_process |-> verbose_flag]

\* a run that returns the result whatever format_output is
RunReturnRecord(result, format, verbose_flag) == result

\* base.py 221-225: what run returns, given the result of execute
RunReturn(result, format, verbose_flag) ==
    IF format THEN FormatOutput(result, verbose_flag) ELSE result

\* base.py 204: the value of format_output when the caller passes none
DefaultFormatOutput == TRUE

\* memory.py 155: the value of max_messages when the caller passes none
DefaultMaxMessages == 100

\* config.verbose of the agents of a workflow
VerboseOf(agent_id) == agent_id = "u1"

\* the result execute returns for a node
AgentResult(node_id) == [kind |-> "result", of |-> node_id]

\* the value agent.run returns for a node: line 149 passes no format_output
RunResult(node_id) ==
    RunReturn(AgentResult(node_id), DefaultFormatOutput,
              VerboseOf(AgentOf(node_id)))

\* a node's transform_output hook: any function that is not the identity
TransformOutput(v) == [v EXCEPT !.kind = "transformed"]

\* a node's transform_input hook, kept symbolic
TransformInput(m) == [transformed |-> TRUE, arg |-> m]
Untransformed(m) == [transformed |-> FALSE, arg |-> m]

\* {**f, **g}: the entries of g override those of f
DictMerge(f, g) == [k \in (DOMAIN f) \cup (DOMAIN g) |->
                      IF k \in DOMAIN g THEN g[k] ELSE f[k]]

\* d[k] = v
DictSet(d, k, v) == [x \in (DOMAIN d) \cup {k} |-> IF x = k THEN v ELSE d[x]]

SeqsUpTo(S, n) == UNION {[1..m -> S] : m \in 0..n}
Range(s) == {s[i] : i \in DOMAIN s}

(***************************************************************************)
(* Workflow._validate                                                      *)
(***************************************************************************)
\* the insertion order of self.nodes (ids are handed out in the order of
\* IdNames)
KeysOf(ns) == [i \in 1..Cardinality(DOMAIN ns) |-> IdNames[i]]

AgentsExist(ns, ags) == \A n \in DOMAIN ns : ns[n].agent_id \in ags

DependenciesExist(ns) ==
    \A n \in DOMAIN ns : \A i \in DOMAIN ns[n].dependencies :
        ns[n].dependencies[i] \in DOMAIN ns

RECURSIVE has_cycle(_, _, _)
RECURSIVE has_cycle_deps(_, _, _, _)

\* has_cycle with one mark: a node met again is taken for a cycle
has_cycle_OneMark(ns, node_id, st) ==
    IF node_id \in st.temp \/ node_id \in st.visited
    THEN [st EXCEPT !.cyc = TRUE]
    ELSE LET st1 == [st EXCEPT !.visited = @ \cup {node_id}]
             st2 == has_cycle_deps(ns, ns[node_id].dependencies, 1, st1)
         IN  st2

\* st = [cyc, visited, temp]; the nested function of _validate
has_cycle(ns, node_id, st) ==
    IF node_id \in st.temp THEN [st EXCEPT !.cyc = TRUE]
    ELSE IF node_id \in st.visited THEN st
    ELSE LET st1 == [st EXCEPT !.temp = @ \cup {node_id}]
             st2 == has_cycle_deps(ns, ns[node_id].dependencies, 1, st1)
         IN  IF st2.cyc THEN st2
             ELSE [st2 EXCEPT !.temp = @ \ {node_id},
                              !.visited = @ \cup {node_id}]

has_cycle_deps(ns, deps, i, st) ==
    IF i > Len(deps) THEN st
    ELSE LET s == has_cycle(ns, deps[i], st)
         IN  IF s.cyc THEN s ELSE has_cycle_deps(ns, deps, i + 1, s)

RECURSIVE CheckEachNode(_, _, _)
CheckEachNode(ns, i, st) ==
    IF i > Len(KeysOf(ns)) THEN st
    ELSE LET s == has_cycle(ns, KeysOf(ns)[i], st)
         IN  IF s.cyc THEN s ELSE CheckEachNode(ns, i + 1, s)

CycleFound(ns) ==
    CheckEachNode(ns, 1, [cyc |-> FALSE, visited |-> {}, temp |-> {}]).cyc

\* the error _validate raises, or "none"
Validate(ns, ags) ==
    IF ~AgentsExist(ns, ags) THEN "no_agent"
    ELSE IF ~DependenciesExist(ns) THEN "dangling"
    ELSE IF CycleFound(ns) THEN "cycle"
    ELSE "none"

(***************************************************************************)
(* Workflow._get_execution_order                                           *)
(***************************************************************************)
RECURSIVE visit(_, _, _)
RECURSIVE visit_deps(_, _, _, _)

\* visit with the append moved in front of the dependency loop
visit_PreOrder(ns, node_id, st) ==
    IF node_id \in st.temp THEN [st EXCEPT !.err = TRUE]
    ELSE IF node_id \in st.visited THEN st
    ELSE LET st1 == [st EXCEPT !.temp = @ \cup {node_id},
                               !.result = Append(@, node_id)]
             st2 == visit_deps(ns, ns[node_id].dependencies, 1, st1)
         IN  IF st2.err THEN st2
             ELSE [st2 EXCEPT !.temp = @ \ {node_id},
                              !.visited = @ \cup {node_id}]

\* visit without visited.add(node_id)
visit_NoVisitedMark(ns, node_id, st) ==
    IF node_id \in st.temp THEN [st EXCEPT !.err = TRUE]
    ELSE IF node_id \in st.visited THEN st
    ELSE LET st1 == [st EXCEPT !.temp = @ \cup {node_id}]
             st2 == visit_deps(ns, ns[node_id].dependencies, 1, st1)
         IN  IF st2.err THEN st2
             ELSE [st2 EXCEPT !.temp = @ \ {node_id},
                              !.result = Append(@, node_id)]

\* st = [err, visited, temp, result]; the nested function visit
visit(ns, node_id, st) ==
    IF node_id \in st.temp THEN [st EXCEPT !.err = TRUE]
    ELSE IF node_id \in st.visited THEN st
    ELSE LET st1 == [st EXCEPT !.temp = @ \cup {node_id}]
             st2 == visit_deps(ns, ns[node_id].dependencies, 1, st1)
         IN  IF st2.err THEN st2
             ELSE [st2 EXCEPT !.temp = @ \ {node_id},
                              !.visited = @ \cup {node_id},
                              !.result = Append(@, node_id)]

visit_deps(ns, deps, i, st) ==
    IF i > Len(deps) THEN st
    ELSE LET s == visit(ns, deps[i], st)
         IN  IF s.err THEN s ELSE visit_deps(ns, deps, i + 1, s)

RECURSIVE VisitEachNode(_, _, _)

\* the loop "for node_id in self.nodes" run from the last node to the first
VisitEachNodeReversed(ns, i, st) ==
    IF i > Len(KeysOf(ns)) THEN st
    ELSE LET node_id == KeysOf(ns)[Len(KeysOf(ns)) + 1 - i]
         IN  IF node_id \in st.visited THEN VisitEachNode(ns, i + 1, st)
             ELSE LET s == visit(ns, node_id, st)
                  IN  IF s.err THEN s ELSE VisitEachNode(ns, i + 1, s)

\* lines 220-223: visit each node that is not visited yet
VisitEachNode(ns, i, st) ==
    IF i > Len(KeysOf(ns)) THEN st
    ELSE IF KeysOf(ns)[i] \in st.visited THEN VisitEachNode(ns, i + 1, st)
    ELSE LET s == visit(ns, KeysOf(ns)[i], st)
         IN  IF s.err THEN s ELSE VisitEachNode(ns, i + 1, s)

\* [err, result]: err when visit raises "Circular dependency detected"
GetExecutionOrder(ns) ==
    VisitEachNode(ns, 1, [err |-> FALSE, visited |-> {}, temp |-> {},
                          result |-> <<>>])

(***************************************************************************)
(* Workflow.execute                                                        *)
(***************************************************************************)
\* lines 131-134: {**input_data} then one assignment per computed dependency
RECURSIVE CollectInputs(_, _, _, _, _)

\* CollectInputs that keeps an existing key (setdefault instead of assignment)
CollectInputsFirstWins(ns, deps, i, res, acc) ==
    IF i > Len(deps) THEN acc
    ELSE IF deps[i] \in DOMAIN res /\ ns[deps[i]].name \notin DOMAIN acc
         THEN CollectInputs(ns, deps, i + 1, res,
                            DictSet(acc, ns[deps[i]].name, res[deps[i]]))
         ELSE CollectInputs(ns, deps, i + 1, res, acc)

CollectInputs(ns, deps, i, res, acc) ==
    IF i > Len(deps) THEN acc
    ELSE IF deps[i] \in DOMAIN res
         THEN CollectInputs(ns, deps, i + 1, res,
                            DictSet(acc, ns[deps[i]].name, res[deps[i]]))
         ELSE CollectInputs(ns, deps, i + 1, res, acc)

\* an input in which the entries of initial_input win over the results of
\* the dependencies
BuildInputKeepsInitial(ns, node_id, inp, res) ==
    DictMerge(CollectInputs(ns, ns[node_id].dependencies, 1, res, EmptyMap),
              inp)

BuildInput(ns, node_id, inp, res) ==
    CollectInputs(ns, ns[node_id].dependencies, 1, res, inp)

\* lines 137-138
ContextFor(ns, node_id, m) ==
    IF ns[node_id].has_transform_input THEN TransformInput(m)
    ELSE Untransformed(m)

\* lines 152-155
StoredResult(ns, node_id, v) ==
    IF ns[node_id].has_transform_output THEN TransformOutput(v) ELSE v

PlainHooks == [has_condition |-> FALSE, has_transform_input |-> FALSE,
               has_transform_output |-> FALSE]
AllHooks == [has_condition |-> TRUE, has_transform_input |-> TRUE,
             has_transform_output |-> TRUE]
HookChoices == {PlainHooks, AllHooks}

InputChoices == {EmptyMap, [k \in {"a", "n1"} |-> InitialValue(k)]}

RECURSIVE EdgeCount(_, _)
EdgeCount(ns, i) ==
    IF i > Len(KeysOf(ns)) THEN 0
    ELSE Len(ns[KeysOf(ns)[i]].dependencies) + EdgeCount(ns, i + 1)

\* no agent run is in progress
AgentIdle ==
    /\ architecture = "none"
    /\ max_iterations = 0
    /\ num_workers = 0
    /\ has_tools = FALSE
    /\ apc = "idle"
    /\ iterations = 0
    /\ is_done = FALSE
    /\ output = <<>>
    /\ gateway_calls = <<>>
    /\ intermediate_steps = <<>>
    /\ scratch_pad = <<>>
    /\ worker_tasks = 0
    /\ worker_id = 0
    /\ tool_log = <<>>
    /\ check_response = <<>>
    /\ step_responses = <<>>
    /\ parse_text = <<>>
    /\ parsed = <<>>
    /\ extra_context = NoContext
    /\ context = <<>>
    /\ verbose = FALSE
    /\ format_output = TRUE
    /\ run_value = <<>>
    /\ aerror = "none"

\* none of the operations modelled on their own has been called
FactoryIdle ==
    /\ create_arg = "none"
    /\ kwargs = {}
    /\ llm = "none"
    /\ agent = NoAgent
    /\ factory_trace = <<>>

\* ToolRegistry.__init__, and nothing asked of the registry
RegistryIdle ==
    /\ registry = <<>>
    /\ registered = <<>>
    /\ got = [op |-> "none"]

\* AgentState(): stage "idle", step_count 0, an empty context, an empty
\* working memory and an empty history.  A stage is the sequence of the
\* pieces its text is formatted from.
NewAgentState ==
    [stage |-> <<"idle">>, step_count |-> 0, context |-> {},
     working_memory |-> "empty", history |-> <<>>]

\* f"iteration_{iterations}"
IterationStage(n) == <<"iteration_", n>>

\* BaseAgent._update_state(**kwargs): a keyword that names an attribute of
\* the state replaces it, context_update adds its keys to the context and
\* add_to_history appends its entry.  An entry of the history is named
\* after the keys of its dictionary.
UpdateState(st, upd) ==
    [key \in DOMAIN st |->
        IF key \in DOMAIN upd THEN upd[key]
        ELSE IF key = "context" /\ "context_update" \in DOMAIN upd
             THEN st.context \cup upd.context_update
        ELSE IF key = "history" /\ "add_to_history" \in DOMAIN upd
             THEN Append(st.history, upd.add_to_history)
        ELSE st[key]]

\* the _update_state call that ends every _initialize_context
Initializing(st) ==
    UpdateState(st, [stage |-> <<"initializing">>,
                     context_update |-> {"task"},
                     working_memory |-> "context"])

\* the _update_state call of one stage call of raise, lat and rewoo
StageState(st, stage) ==
    UpdateState(st, [stage |-> <<stage>>, add_to_history |-> stage])

\* the lists the context of a strategy is created with
ContextLists(arch) ==
    CASE arch = "react" -> [k \in {"thoughts", "actions", "observations"}
                               |-> 0]
      [] arch = "ooda" -> [k \in {"observations", "orientations",
                                  "decisions", "actions"} |-> 0]
      [] arch = "bdi" -> [k \in {"beliefs", "desires", "intentions",
                                 "selected_actions", "actions_results"}
                             |-> 0]
      [] OTHER -> EmptyMap

\* list.append on some lists of the context
AppendTo(lists, keys) ==
    [k \in DOMAIN lists |-> IF k \in keys THEN lists[k] + 1 ELSE lists[k]]

\* BaseAgent.__init__ has set self.state, and run was never called
RunIdle ==
    /\ state = NewAgentState
    /\ context_lists = EmptyMap
    /\ worker_results = <<>>
    /\ solver_prompt = <<>>
    /\ ran_before = FALSE
    /\ current_path = <<>>

\* no conversation buffer has been made
MemoryIdle ==
    /\ max_messages = DefaultMaxMessages
    /\ messages = <<>>
    /\ added = <<>>

ExtraIdle ==
    /\ section_type = "none"
    /\ FactoryIdle
    /\ RegistryIdle
    /\ RunIdle
    /\ MemoryIdle

\* Workflow.__init__
WorkflowInit ==
    /\ nodes = EmptyMap
    /\ agents = {}
    /\ input_data = EmptyMap
    /\ wpc = "idle"
    /\ execution_order = <<>>
    /\ idx = 0
    /\ results = EmptyMap
    /\ call_log = <<>>
    /\ node_input = EmptyMap
    /\ agent_ctx = EmptyMap
    /\ guard_arg = EmptyMap
    /\ guard_evals = [n \in NodeIds |-> 0]
    /\ writes = [n \in NodeIds |-> 0]
    /\ skipped = {}
    /\ returned = NoValue
    /\ werror = "none"
    /\ run_raised = "none"

\* add_node: the new node gets the next id; its dependency list is any
\* list of ids (of nodes added before or after it, or of no node at all)
AddNode ==
    /\ wpc = "idle"
    /\ Cardinality(DOMAIN nodes) < MaxNodes
    /\ \E deps \in SeqsUpTo(NodeIds \cup {DanglingId},
                             MaxEdges - EdgeCount(nodes, 1)) :
       \E hooks \in HookChoices :
          LET id == IdNames[Cardinality(DOMAIN nodes) + 1]
          IN  /\ nodes' = DictSet(nodes, id,
                    [agent_id |-> AgentOf(id), name |-> NameOf(id),
                     dependencies |-> deps,
                     has_condition |-> hooks.has_condition,
                     has_transform_input |-> hooks.has_transform_input,
                     has_transform_output |-> hooks.has_transform_output])
              /\ agents' = agents \cup {AgentOf(id)}
    /\ UNCHANGED <<input_data, wpc, execution_order, idx, results, call_log,
                   node_input, agent_ctx, guard_arg, writes, skipped,
                   returned, werror, run_raised>>
    /\ UNCHANGED <<avars, xvars, svars, guard_evals>>

\* lines 110-120, validation fails: execute raises (the input is not read)
ExecuteInvalid ==
    /\ wpc = "idle"
    /\ Validate(nodes, agents) # "none"
    /\ wpc' = "raised"
    /\ werror' = Validate(nodes, agents)
    /\ UNCHANGED <<nodes, agents, input_data, execution_order, idx, results,
                   call_log, node_input, agent_ctx, guard_arg, writes,
                   skipped, returned, run_raised>>
    /\ UNCHANGED <<avars, xvars, svars, guard_evals>>

\* execute that drops unknown dependency ids instead of rejecting them
ExecuteStartIgnoresDangling ==
    LET Known(d) == d \in DOMAIN nodes
        pruned == [n \in DOMAIN nodes |->
                     [nodes[n] EXCEPT !.dependencies = SelectSeq(@, Known)]]
    IN  /\ wpc = "idle"
        /\ Validate(pruned, agents) = "none"
        /\ input_data' \in InputChoices
        /\ wpc' = "loop"
        /\ execution_order' = GetExecutionOrder(pruned).result
        /\ idx' = 1
        /\ results' = EmptyMap
        /\ UNCHANGED <<nodes, agents, call_log, node_input,
                       agent_ctx, guard_arg, writes, skipped, returned,
                       werror, run_raised>>
        /\ UNCHANGED <<avars, xvars, svars, guard_evals>>

\* execute that loops over self.nodes without validating or sorting
ExecuteStartUnvalidated ==
    /\ wpc = "idle"
    /\ wpc' = "loop"
    /\ input_data' \in InputChoices
    /\ execution_order' = KeysOf(nodes)
    /\ idx' = 1
    /\ results' = EmptyMap
    /\ UNCHANGED <<nodes, agents, call_log, node_input,
                   agent_ctx, guard_arg, writes, skipped, returned, werror,
                   run_raised>>
    /\ UNCHANGED <<avars, xvars, svars, guard_evals>>

\* an execute that goes on with the results mapping of the execute before
ExecuteStartKeepsResults ==
    /\ wpc = "idle"
    /\ Validate(nodes, agents) = "none"
    /\ input_data' \in InputChoices
    /\ LET o == GetExecutionOrder(nodes)
       IN  IF o.err
           THEN /\ wpc' = "raised"
                /\ werror' = "cycle"
                /\ UNCHANGED <<execution_order, idx>>
           ELSE /\ wpc' = "loop"
                /\ execution_order' = o.result
                /\ idx' = 1
                /\ UNCHANGED werror
    /\ UNCHANGED <<nodes, agents, results, call_log, node_input,
                   agent_ctx, guard_arg, writes, skipped, returned, run_raised>>
    /\ UNCHANGED <<avars, xvars, svars, guard_evals>>

\* lines 110-120, validation passes: the order is computed
ExecuteStart ==
    /\ wpc = "idle"
    /\ Validate(nodes, agents) = "none"
    /\ input_data' \in InputChoices
    /\ LET o == GetExecutionOrder(nodes)
       IN  IF o.err
           THEN /\ wpc' = "raised"
                /\ werror' = "cycle"
                /\ UNCHANGED <<execution_order, idx>>
           ELSE /\ wpc' = "loop"
                /\ execution_order' = o.result
                /\ idx' = 1
                /\ UNCHANGED werror
    /\ results' = EmptyMap
    /\ UNCHANGED <<nodes, agents, call_log, node_input,
                   agent_ctx, guard_arg, writes, skipped, returned, run_raised>>
    /\ UNCHANGED <<avars, xvars, svars, guard_evals>>

\* a skip that propagates: a node is also skipped, without a look at its
\* guard, when one of its dependencies was skipped
NodeSkipPropagates ==
    /\ wpc = "loop"
    /\ idx <= Len(execution_order)
    /\ LET node_id == execution_order[idx]
       IN  /\ \/ nodes[node_id].has_condition
              \/ Range(nodes[node_id].dependencies) \cap skipped # {}
           /\ guard_arg' = IF nodes[node_id].has_condition
                           THEN DictSet(guard_arg, node_id,
                                        DictMerge(input_data, results))
                           ELSE guard_arg
           /\ skipped' = skipped \cup {node_id}
    /\ idx' = idx + 1
    /\ guard_evals' = [guard_evals EXCEPT ![execution_order[idx]] =
                         IF nodes[execution_order[idx]].has_condition
                         THEN @ + 1 ELSE @]
    /\ UNCHANGED <<nodes, agents, input_data, wpc, execution_order, results,
                   call_log, node_input, agent_ctx, writes, returned, werror,
                   run_raised>>
    /\ UNCHANGED <<avars, xvars, svars>>

\* a skip that stores a null placeholder under the node's id
NodeSkipPlaceholder ==
    /\ wpc = "loop"
    /\ idx <= Len(execution_order)
    /\ LET node_id == execution_order[idx]
       IN  /\ nodes[node_id].has_condition
           /\ guard_arg' = DictSet(guard_arg, node_id,
                                   DictMerge(input_data, results))
           /\ skipped' = skipped \cup {node_id}
           /\ results' = DictSet(results, node_id, NoValue)
    /\ idx' = idx + 1
    /\ guard_evals' = [guard_evals EXCEPT ![execution_order[idx]] =
                         IF nodes[execution_order[idx]].has_condition
                         THEN @ + 1 ELSE @]
    /\ UNCHANGED <<nodes, agents, input_data, wpc, execution_order,
                   call_log, node_input, agent_ctx, writes, returned, werror,
                   run_raised>>
    /\ UNCHANGED <<avars, xvars, svars>>

\* lines 123-128: the guard of the next node evaluates false
NodeSkip ==
    /\ wpc = "loop"
    /\ idx <= Len(execution_order)
    /\ LET node_id == execution_order[idx]
       IN  /\ nodes[node_id].has_condition
           /\ guard_arg' = DictSet(guard_arg, node_id,
                                   DictMerge(input_data, results))
           /\ skipped' = skipped \cup {node_id}
    /\ idx' = idx + 1
    /\ guard_evals' = [guard_evals EXCEPT ![execution_order[idx]] =
                         IF nodes[execution_order[idx]].has_condition
                         THEN @ + 1 ELSE @]
    /\ UNCHANGED <<nodes, agents, input_data, wpc, execution_order, results,
                   call_log, node_input, agent_ctx, writes, returned, werror, run_raised>>
    /\ UNCHANGED <<avars, xvars, svars>>

\* a guard that is given {**results, **input_data}: the initial input wins
NodeCallInputWins ==
    /\ wpc = "loop"
    /\ idx <= Len(execution_order)
    /\ LET node_id == execution_order[idx]
           m == BuildInput(nodes, node_id, input_data, results)
       IN  /\ guard_arg' = IF nodes[node_id].has_condition
                           THEN DictSet(guard_arg, node_id,
                                        DictMerge(results, input_data))
                           ELSE guard_arg
           /\ node_input' = DictSet(node_input, node_id, m)
           /\ agent_ctx' = DictSet(agent_ctx, node_id,
                                   ContextFor(nodes, node_id, m))
           /\ call_log' = Append(call_log, node_id)
    /\ wpc' = "calling"
    /\ guard_evals' = [guard_evals EXCEPT ![execution_order[idx]] =
                         IF nodes[execution_order[idx]].has_condition
                         THEN @ + 1 ELSE @]
    /\ UNCHANGED <<nodes, agents, input_data, execution_order, idx, results,
                   writes, skipped, returned, werror, run_raised>>
    /\ UNCHANGED <<avars, xvars, svars>>

\* lines 123-149: the node is not skipped; its input is built and
\* agent.run is invoked
NodeCall ==
    /\ wpc = "loop"
    /\ idx <= Len(execution_order)
    /\ LET node_id == execution_order[idx]
           m == BuildInput(nodes, node_id, input_data, results)
       IN  /\ guard_arg' = IF nodes[node_id].has_condition
                           THEN DictSet(guard_arg, node_id,
                                        DictMerge(input_data, results))
                           ELSE guard_arg
           /\ node_input' = DictSet(node_input, node_id, m)
           /\ agent_ctx' = DictSet(agent_ctx, node_id,
                                   ContextFor(nodes, node_id, m))
           /\ call_log' = Append(call_log, node_id)
    /\ wpc' = "calling"
    /\ guard_evals' = [guard_evals EXCEPT ![execution_order[idx]] =
                         IF nodes[execution_order[idx]].has_condition
                         THEN @ + 1 ELSE @]
    /\ UNCHANGED <<nodes, agents, input_data, execution_order, idx, results,
                   writes, skipped, returned, werror, run_raised>>
    /\ UNCHANGED <<avars, xvars, svars>>

\* lines 149-155: agent.run returns; the result is stored
AgentReturn ==
    /\ wpc = "calling"
    /\ LET node_id == execution_order[idx]
       IN  /\ results' = DictSet(results, node_id,
                                 StoredResult(nodes, node_id,
                                              RunResult(node_id)))
           /\ writes' = [writes EXCEPT ![node_id] = @ + 1]
    /\ idx' = idx + 1
    /\ wpc' = "loop"
    /\ UNCHANGED <<nodes, agents, input_data, execution_order, call_log,
                   node_input, agent_ctx, guard_arg, skipped, returned,
                   werror, run_raised>>
    /\ UNCHANGED <<avars, xvars, svars, guard_evals>>

\* an execute that catches the exception of agent.run and goes on
AgentRaiseSwallowed ==
    /\ wpc = "calling"
    /\ wpc' = "loop"
    /\ idx' = idx + 1
    /\ run_raised' = execution_order[idx]
    /\ UNCHANGED <<nodes, agents, input_data, execution_order, results,
                   call_log, node_input, agent_ctx, guard_arg, writes,
                   skipped, returned, werror>>
    /\ UNCHANGED <<avars, xvars, svars, guard_evals>>

\* line 149: agent.run raises; nothing in execute catches it
AgentRaise ==
    /\ wpc = "calling"
    /\ wpc' = "raised"
    /\ werror' = "agent"
    /\ run_raised' = execution_order[idx]
    /\ UNCHANGED <<nodes, agents, input_data, execution_order, idx, results,
                   call_log, node_input, agent_ctx, guard_arg, writes,
                   skipped, returned>>
    /\ UNCHANGED <<avars, xvars, svars, guard_evals>>

\* line 157
ExecuteReturn ==
    /\ wpc = "loop"
    /\ idx > Len(execution_order)
    /\ wpc' = "done"
    /\ returned' = [kind |-> "results", of |-> results]
    /\ UNCHANGED <<nodes, agents, input_data, execution_order, idx, results,
                   call_log, node_input, agent_ctx, guard_arg, writes,
                   skipped, werror, run_raised>>
    /\ UNCHANGED <<avars, xvars, svars, guard_evals>>

WorkflowNext ==
    \/ AddNode
    \/ ExecuteInvalid
    \/ ExecuteStart
    \/ NodeSkip
    \/ NodeCall
    \/ AgentReturn
    \/ AgentRaise
    \/ ExecuteReturn

\* a workflow under construction and no agent run
WorkflowSpecInit == WorkflowInit /\ AgentIdle /\ ExtraIdle

SpecWorkflow == WorkflowSpecInit /\ [][WorkflowNext]_vars

(***************************************************************************)
(* Workflow.execute over graphs with one more edge than add_node is given  *)
(* above, so that a node can be reached along two paths; the nodes have no *)
(* guard and no transform.                                                 *)
(***************************************************************************)
GraphEdges == MaxEdges + 1

\* add_node(agent_id, name, dependencies) without hooks
PlainNode(id, deps) ==
    [agent_id |-> AgentOf(id), name |-> NameOf(id), dependencies |-> deps,
     has_condition |-> PlainHooks.has_condition,
     has_transform_input |-> PlainHooks.has_transform_input,
     has_transform_output |-> PlainHooks.has_transform_output]

\* add_node for a node without hooks: the new node gets the next id; its
\* dependency list is any list of ids
AddPlainNode ==
    /\ wpc = "idle"
    /\ Cardinality(DOMAIN nodes) < MaxNodes
    /\ \E deps \in SeqsUpTo(NodeIds \cup {DanglingId},
                             GraphEdges - EdgeCount(nodes, 1)) :
          LET id == IdNames[Cardinality(DOMAIN nodes) + 1]
          IN  /\ nodes' = DictSet(nodes, id, PlainNode(id, deps))
              /\ agents' = agents \cup {AgentOf(id)}
    /\ UNCHANGED <<input_data, wpc, execution_order, idx, results, call_log,
                   node_input, agent_ctx, guard_arg, writes, skipped,
                   returned, werror, run_raised>>
    /\ UNCHANGED <<avars, xvars, svars, guard_evals>>

ValidateNext ==
    \/ AddPlainNode
    \/ ExecuteInvalid
    \/ ExecuteStart
    \/ NodeCall
    \/ AgentReturn
    \/ ExecuteReturn

SpecValidate == WorkflowSpecInit /\ [][ValidateNext]_vars

(***************************************************************************)
(* Workflow.execute called again on the same workflow: the call has ended  *)
(* and its locals are gone; the mapping it has built is what the caller    *)
(* was handed, and the caller still holds its initial_input.  The history  *)
(* of the call that has ended is forgotten.  The nodes have no guard and   *)
(* no transform.                                                           *)
(***************************************************************************)
ExecuteAgain ==
    /\ wpc \in {"done", "raised"}
    /\ wpc' = "idle"
    /\ execution_order' = <<>>
    /\ idx' = 0
    /\ call_log' = <<>>
    /\ node_input' = EmptyMap
    /\ agent_ctx' = EmptyMap
    /\ guard_arg' = EmptyMap
    /\ guard_evals' = [n \in NodeIds |-> 0]
    /\ writes' = [n \in NodeIds |-> 0]
    /\ skipped' = {}
    /\ werror' = "none"
    /\ run_raised' = "none"
    /\ UNCHANGED <<nodes, agents, input_data, results, returned>>
    /\ UNCHANGED <<avars, xvars, svars>>

ReexecuteNext ==
    \/ AddPlainNode
    \/ ExecuteInvalid
    \/ ExecuteStart
    \/ NodeCall
    \/ AgentReturn
    \/ AgentRaise
    \/ ExecuteReturn
    \/ ExecuteAgain

SpecReexecute == WorkflowSpecInit /\ [][ReexecuteNext]_vars

(***************************************************************************)
(* A workflow built by add_node calls alone, every dependency list made of *)
(* ids that earlier add_node calls have returned.                          *)
(***************************************************************************)
\* add_node for a node without hooks whose dependency list is any list of
\* the ids handed out so far
AddNodeOnEarlier ==
    /\ wpc = "idle"
    /\ Cardinality(DOMAIN nodes) < MaxNodes
    /\ \E deps \in SeqsUpTo(DOMAIN nodes,
                             GraphEdges - EdgeCount(nodes, 1)) :
          LET id == IdNames[Cardinality(DOMAIN nodes) + 1]
          IN  /\ nodes' = DictSet(nodes, id, PlainNode(id, deps))
              /\ agents' = agents \cup {AgentOf(id)}
    /\ UNCHANGED <<input_data, wpc, execution_order, idx, results, call_log,
                   node_input, agent_ctx, guard_arg, writes, skipped,
                   returned, werror, run_raised>>
    /\ UNCHANGED <<avars, xvars, svars, guard_evals>>

BuildNext ==
    \/ AddNodeOnEarlier
    \/ ExecuteStart
    \/ NodeCall
    \/ AgentReturn
    \/ ExecuteReturn

SpecBuild == WorkflowSpecInit /\ [][BuildNext]_vars

(***************************************************************************)
(* Properties of the scheduler                                             *)
(***************************************************************************)
DepSet(n) == Range(nodes[n].dependencies)

\* some node declares a dependency id that is not a key of the node mapping
HasDangling == \E n \in DOMAIN nodes : ~(DepSet(n) \subseteq DOMAIN nodes)

RECURSIVE DepClosure(_, _)
DepClosure(S, k) ==
    IF k = 0 THEN S
    ELSE DepClosure(S \cup UNION {DepSet(m) \cap DOMAIN nodes : m \in S},
                    k - 1)

\* the nodes n transitively depends on
TransitiveDeps(n) ==
    DepClosure(DepSet(n) \cap DOMAIN nodes, Cardinality(DOMAIN nodes))

\* some node transitively depends on itself
HasDepCycle == \E n \in DOMAIN nodes : n \in TransitiveDeps(n)

Pos(s, x) == CHOOSE i \in DOMAIN s : s[i] = x

NothingRan ==
    /\ call_log = <<>>
    /\ DOMAIN node_input = {}
    /\ DOMAIN agent_ctx = {}
    /\ DOMAIN results = {}
    /\ returned = NoValue

\* what results holds for a node that ran
ExpectedStored(d) ==
    IF nodes[d].has_transform_output THEN TransformOutput(RunResult(d))
    ELSE RunResult(d)

\* C1: on a graph whose dependency relation has a cycle (a self-dependency
\* included) execute raises, and no agent has been invoked in any state up
\* to and including the error.
C1_CycleRaisesBeforeAnyRun ==
    HasDepCycle => /\ wpc \in {"idle", "raised"}
                   /\ wpc = "raised" => werror \in {"cycle", "dangling"}
                   /\ NothingRan

C1_Witness ==
    /\ wpc = "raised"
    /\ werror = "cycle"
    /\ HasDepCycle
    /\ \E n \in DOMAIN nodes : n \notin DepSet(n) /\ n \in TransitiveDeps(n)

\* C2: on a graph with a dangling dependency id execute raises before any
\* agent is invoked, wherever the node sits and whatever the rest of the
\* graph looks like.
C2_DanglingRaisesBeforeAnyRun ==
    HasDangling => /\ wpc \in {"idle", "raised"}
                   /\ wpc = "raised" => werror = "dangling"
                   /\ NothingRan

C2_Witness ==
    /\ wpc = "raised"
    /\ werror = "dangling"
    /\ Cardinality(DOMAIN nodes) >= 2
    /\ \E n \in DOMAIN nodes :
          /\ DanglingId \in DepSet(n)
          /\ DepSet(n) \cap (DOMAIN nodes \ {n}) # {}
    /\ ~HasDepCycle

\* C3: for every dangling-free acyclic graph the computed execution order
\* holds every node id exactly once and every node comes after each of its
\* dependencies.
C3_OrderIsTopological ==
    (~HasDangling /\ ~HasDepCycle /\ wpc # "idle") =>
        /\ werror \notin {"cycle", "dangling", "no_agent"}
        /\ Len(execution_order) = Cardinality(DOMAIN nodes)
        /\ Range(execution_order) = DOMAIN nodes
        /\ \A n \in DOMAIN nodes : \A d \in DepSet(n) :
              Pos(execution_order, d) < Pos(execution_order, n)

C3_Witness ==
    /\ wpc = "loop"
    /\ execution_order # KeysOf(nodes)
    /\ \E n \in DOMAIN nodes : Cardinality(DepSet(n)) = 2

\* the indexes of the dependencies of n that have a stored result
ComputedDeps(n) ==
    {i \in DOMAIN nodes[n].dependencies :
        nodes[n].dependencies[i] \in DOMAIN results}

ComputedNames(n) ==
    {nodes[nodes[n].dependencies[i]].name : i \in ComputedDeps(n)}

LastComputedNamed(n, k) ==
    LET cand == {i \in ComputedDeps(n) :
                    nodes[nodes[n].dependencies[i]].name = k}
    IN  nodes[n].dependencies[CHOOSE i \in cand : \A j \in cand : j <= i]

\* C4 (as stated): the input of an executed node holds, for every
\* dependency that has a result, the entry display name -> that result.
C4_Original ==
    \A n \in DOMAIN node_input : \A i \in ComputedDeps(n) :
        LET d == nodes[n].dependencies[i]
        IN  /\ nodes[d].name \in DOMAIN node_input[n]
            /\ node_input[n][nodes[d].name] = results[d]

\* C4 (amended): the mapping handed to the agent before the input transform
\* is initial_input with, for every display name of a computed dependency,
\* the stored (output-transformed) result of the LAST computed dependency
\* of that name in the dependency list; all other keys keep initial_input.
C4_InputIsMergeByDisplayName ==
    \A n \in DOMAIN node_input :
        LET m == node_input[n]
        IN  /\ DOMAIN m = (DOMAIN input_data) \cup ComputedNames(n)
            /\ \A k \in DOMAIN m :
                  IF k \in ComputedNames(n)
                  THEN m[k] = ExpectedStored(LastComputedNamed(n, k))
                  ELSE m[k] = input_data[k]
            /\ n \in DOMAIN agent_ctx
            /\ agent_ctx[n].arg = m
            /\ agent_ctx[n].transformed = nodes[n].has_transform_input

C4_Witness ==
    /\ wpc = "done"
    /\ \E n \in DOMAIN node_input :
          /\ \E i, j \in ComputedDeps(n) :
                /\ i < j
                /\ nodes[n].dependencies[i] # nodes[n].dependencies[j]
                /\ nodes[nodes[n].dependencies[i]].name
                     = nodes[nodes[n].dependencies[j]].name
          /\ \E i \in ComputedDeps(n) :
                nodes[nodes[n].dependencies[i]].has_transform_output

\* C5 (as stated): a skipped node leaves no trace, and the input of each
\* of its dependents has no key for the skipped node's display name.
C5_Original ==
    \A n \in skipped :
        /\ n \notin DOMAIN results
        /\ n \notin Range(call_log)
        /\ \A m \in DOMAIN node_input :
              n \in DepSet(m) => nodes[n].name \notin DOMAIN node_input[m]

\* C5 (amended): a skipped node never gets a key in results or in the
\* returned mapping, its agent and transforms are not invoked, and it
\* contributes nothing to a dependent's input: the key of its display name
\* is present there only when initial_input or another computed dependency
\* of the same display name supplies it, with that supplier's value and
\* never a null placeholder.
C5_SkippedContributesNothing ==
    \A n \in skipped :
        /\ n \notin DOMAIN results
        /\ wpc = "done" => n \notin DOMAIN returned.of
        /\ n \notin Range(call_log)
        /\ n \notin DOMAIN node_input
        /\ n \notin DOMAIN agent_ctx
        /\ writes[n] = 0
        /\ \A m \in DOMAIN node_input :
              (n \in DepSet(m) /\ nodes[n].name \in DOMAIN node_input[m]) =>
                LET k == nodes[n].name
                    v == node_input[m][k]
                IN  /\ v # NoValue
                    /\ \/ \E d \in DepSet(m) \cap DOMAIN results :
                             nodes[d].name = k /\ v = ExpectedStored(d)
                       \/ /\ k \in DOMAIN input_data
                          /\ k \notin ComputedNames(m)
                          /\ v = input_data[k]

C5_Witness ==
    /\ wpc = "done"
    /\ \E n \in skipped : \E m \in DOMAIN node_input :
          /\ n \in DepSet(m)
          /\ nodes[n].name \notin DOMAIN node_input[m]
          /\ n \notin DOMAIN returned.of
          /\ m \in DOMAIN returned.of

\* the number of positions of the order the loop has entered
Entered ==
    IF wpc \in {"loop", "done"} THEN idx - 1
    ELSE IF wpc = "calling" \/ run_raised # "none" THEN idx
    ELSE 0

\* C6: agents are invoked one at a time in the computed order; every
\* non-skipped node is invoked exactly once, its results entry is written
\* exactly once and keeps its value, and a node is invoked only after each
\* of its dependencies was executed or skipped.
C6_SerialInOrderOnce ==
    LET NotSkipped(x) == x \notin skipped
    IN  /\ call_log = SelectSeq(SubSeq(execution_order, 1, Entered),
                                NotSkipped)
        /\ \A i, j \in DOMAIN call_log : call_log[i] = call_log[j] => i = j
        /\ \A n \in NodeIds :
              /\ n \in DOMAIN results => n \in DOMAIN nodes
              /\ writes[n] <= 1
              /\ writes[n] = 1 <=> n \in DOMAIN results
              /\ n \in DOMAIN results =>
                    /\ results[n] = ExpectedStored(n)
                    /\ n \in Range(call_log)
        /\ Len(call_log) - Cardinality(DOMAIN results) =
              (IF wpc = "calling" \/ run_raised # "none" THEN 1 ELSE 0)
        /\ \A n \in Range(call_log) : \A d \in DepSet(n) :
              \/ d \in skipped
              \/ /\ d \in DOMAIN results
                 /\ d \in Range(call_log)
                 /\ Pos(call_log, d) < Pos(call_log, n)
        /\ wpc = "done" =>
              \A n \in DOMAIN nodes :
                  /\ n \in skipped <=> n \notin Range(call_log)
                  /\ n \notin skipped <=> writes[n] = 1

C6_Witness ==
    /\ wpc = "done"
    /\ Len(call_log) >= 2
    /\ skipped # {}
    /\ execution_order # KeysOf(nodes)

\* C7: when the agent run of a node raises, execute raises too: no node
\* later in the order is executed or skipped and no results mapping, not
\* even the entries already computed, is returned.
C7_AgentFailureAborts ==
    run_raised # "none" =>
        /\ wpc = "raised"
        /\ werror = "agent"
        /\ returned = NoValue
        /\ execution_order[idx] = run_raised
        /\ run_raised \notin DOMAIN results
        /\ \A j \in (idx + 1)..Len(execution_order) :
              /\ execution_order[j] \notin Range(call_log)
              /\ execution_order[j] \notin DOMAIN results
              /\ execution_order[j] \notin skipped

C7_Witness ==
    /\ run_raised # "none"
    /\ wpc = "raised"
    /\ DOMAIN results # {}
    /\ idx < Len(execution_order)

(***************************************************************************)
(* The agent loops (harkaam/agents).  Every call of the Model Gateway and  *)
(* of a tool returns normally; what it returns is chosen freely among the  *)
(* cases the code tells apart.                                             *)
(***************************************************************************)
MaxBudget == 2
MaxWorkers == 2

Strategies == {"react", "ooda", "bdi", "raise", "lat", "rewoo"}

\* the literal of react.py:128, ooda.py:108, bdi.py:339, raise_agent.py:133
Notice == "Task not completed within maximum iterations. "

\* responses of the gateway that can become the output of the run
Responses == {"r1", "r2"}

\* a recorded gateway call; "text" stands for a response that is only
\* stored or pasted into later prompts
Call(stage, response) == [stage |-> stage, response |-> response]
StageCall(stage) == Call(stage, "text")

\* ---------------------------------------------------------------------
\* RAISE: the scratch pad is a string; it is modelled line by line.  A
\* line is the title ("# Scratch Pad ..."), a section header ("## X",
\* spelled exactly as _update_scratch_pad writes it or in another case)
\* or plain text.
\* ---------------------------------------------------------------------
Title == [kind |-> "title", section |-> "", exact |-> TRUE]
Text == [kind |-> "text", section |-> "", exact |-> TRUE]
Header(section, exact) ==
    [kind |-> "header", section |-> section, exact |-> exact]

\* what the gateway can answer to the scratch_pad_init and working_memory
\* prompts: plain text, a pad, a pad with a "## examples" or a
\* "## Tool results" header
PadResponses ==
    {<<Text>>, <<Title, Text>>, <<Title, Header("Examples", FALSE), Text>>,
     <<Title, Header("Tool Results", FALSE), Text>>}

\* what the gateway can answer to the other stage prompts: plain text, or
\* text under a lower-case "## thoughts" header
ContentResponses == {<<Text>>, <<Header("Thoughts", FALSE), Text>>}

\* "Scratch Pad" in response or response.strip().startswith("#")
LooksLikePad(response) ==
    \/ \E i \in DOMAIN response : response[i].kind = "title"
    \/ Len(response) > 0 /\ response[1].kind \in {"title", "header"}

\* _initialize_scratch_pad, the pad built when the response is no pad
BasicPad(tools) ==
    <<Title, Header("Initial Context", TRUE), Text>>
        \o (IF tools THEN <<Header("Available Tools", TRUE), Text>> ELSE <<>>)

InitializeScratchPad(response, tools) ==
    IF LooksLikePad(response) THEN response ELSE BasicPad(tools)

\* section_pattern.search: a header of the section in any case
SectionFound(pad, section) ==
    \E i \in DOMAIN pad : pad[i].kind = "header" /\ pad[i].section = section

\* the places where scratch_pad.split("## {section}\n", 1) can split
ExactAt(pad, section) ==
    {i \in DOMAIN pad : pad[i] = Header(section, TRUE)}

Min(S) == CHOOSE x \in S : \A y \in S : x <= y

\* the places where parts[1].split("\n##", 1) can split: a header line
\* that is not the first line of parts[1]
NextHeaderAt(rest) ==
    {j \in DOMAIN rest : j >= 2 /\ rest[j].kind = "header"}

\* _update_scratch_pad; ok is FALSE when parts[1] raises IndexError
UpdateScratchPad(pad, section, content) ==
    IF ~SectionFound(pad, section)
    THEN [ok |-> TRUE, pad |-> pad \o <<Header(section, TRUE)>> \o content]
    ELSE IF ExactAt(pad, section) = {}
    THEN [ok |-> FALSE, pad |-> pad]
    ELSE LET i == Min(ExactAt(pad, section))
             rest == SubSeq(pad, i + 1, Len(pad))
             head == SubSeq(pad, 1, i - 1) \o <<Header(section, TRUE)>>
         IN  IF NextHeaderAt(rest) # {}
             THEN [ok |-> TRUE,
                   pad |-> head \o content
                           \o SubSeq(rest, Min(NextHeaderAt(rest)),
                                     Len(rest))]
             ELSE [ok |-> TRUE, pad |-> head \o content]

\* ---------------------------------------------------------------------
\* _check_completion of ooda, bdi and raise.  A response is a text: a
\* sequence of pieces, each a run of characters of a known length.  " "
\* is white space, "f92" and "f97" are 92 and 97 characters that spell
\* nothing of interest, "a" is a one-letter word.
\* ---------------------------------------------------------------------
MaxPieces == 3

Pieces ==
    {" ", "a", "YES", "complete", "f92", "f97", "final answer",
     "Final Answer:"}

PieceLen(piece) ==
    CASE piece = "YES" -> 3
      [] piece = "complete" -> 8
      [] piece = "f92" -> 92
      [] piece = "f97" -> 97
      [] piece = "final answer" -> 12
      [] piece = "Final Answer:" -> 13
      [] OTHER -> 1

\* str.lower, piece by piece
Lower(piece) ==
    CASE piece = "YES" -> "yes"
      [] piece = "Final Answer:" -> "final answer:"
      [] OTHER -> piece

RECURSIVE TextLen(_)
TextLen(text) ==
    IF text = <<>> THEN 0 ELSE PieceLen(Head(text)) + TextLen(Tail(text))

\* response.lower()[:n]: the pieces that fit whole, then what is left of
\* the piece the cut goes through, which spells nothing
RECURSIVE LowerSlice(_, _)
LowerSlice(text, n) ==
    IF text = <<>> \/ n <= 0 THEN <<>>
    ELSE IF PieceLen(Head(text)) <= n
    THEN <<Lower(Head(text))>>
             \o LowerSlice(Tail(text), n - PieceLen(Head(text)))
    ELSE <<"cut">>

\* the number of characters the completion checks look at
CheckWindow == 100

\* a check that looks at the whole response
IsCompleteAnywhere(response) ==
    \E i \in DOMAIN response : Lower(response[i]) \in {"yes", "complete"}

\* "yes" in response.lower()[:100] or "complete" in response.lower()[:100]
IsComplete(response) ==
    \/ "yes" \in Range(LowerSlice(response, CheckWindow))
    \/ "complete" \in Range(LowerSlice(response, CheckWindow))

\* str.strip
RECURSIVE LStrip(_)
LStrip(text) ==
    IF text # <<>> /\ Head(text) = " " THEN LStrip(Tail(text)) ELSE text

RECURSIVE RStrip(_)
RStrip(text) ==
    IF text # <<>> /\ text[Len(text)] = " "
    THEN RStrip(SubSeq(text, 1, Len(text) - 1)) ELSE text

Strip(text) == RStrip(LStrip(text))

\* re.search(r"final answer:?(.*)", ..., re.IGNORECASE | re.DOTALL): the
\* places where the pattern matches
MarkerAt(text) ==
    {i \in DOMAIN text : Lower(text[i]) \in {"final answer", "final answer:"}}

\* an extraction that keeps what follows the last marker
FinalAnswerAfterLastMarker(response, complete) ==
    LET stripped == Strip(response)
        Max(S) == CHOOSE x \in S : \A y \in S : x >= y
    IN  IF complete /\ MarkerAt(stripped) # {}
        THEN Strip(SubSeq(stripped, Max(MarkerAt(stripped)) + 1,
                          Len(stripped)))
        ELSE stripped

\* the final_answer that _check_completion returns
FinalAnswer(response, complete) ==
    LET stripped == Strip(response)
    IN  IF complete /\ MarkerAt(stripped) # {}
        THEN Strip(SubSeq(stripped, Min(MarkerAt(stripped)) + 1,
                          Len(stripped)))
        ELSE stripped

\* _check_completion, given the gateway's response
CheckCompletion(response) ==
    [is_complete |-> IsComplete(response),
     final_answer |-> FinalAnswer(response, IsComplete(response))]

\* the responses the completion check gets in the runs of the loops; "r1"
\* and "r2" are one-letter words
LoopCheckResponses ==
    {<<"a", "r1">>,
     <<" ", "f97", "YES", "r1">>,
     <<"f97", "YES", "r1">>,
     <<"f97", "a", "a", "a", "YES">>,
     <<" ", "complete", "Final Answer:", " ", "r2">>}

\* ---------------------------------------------------------------------
\* core/parser.py.  A text is a sequence of tokens: the labels of the
\* grammars, words, and " " for a run of white space.  The match of a
\* label carries, next to its content, the place of the label in the text.
\* ---------------------------------------------------------------------
MaxTokens == 4

OptionLabel == "- Option 1:"
EvaluationLabel == "  Evaluation:"
StepLabel == "  Step 1:"

\* the labels that begin with white space
Indented == {EvaluationLabel, StepLabel}

\* the "\s*" behind a label takes the white space that follows, the
\* indentation of an indented label included: that label is then content.
\* The place of the last token "\s*" has a part in, i if there is none.
RECURSIVE SpaceEnd(_, _)
SpaceEnd(text, i) ==
    IF i + 1 > Len(text) THEN i
    ELSE IF text[i + 1] = " " THEN SpaceEnd(text, i + 1)
    ELSE IF text[i + 1] \in Indented THEN i + 1
    ELSE i

\* re.finditer(label + r"\s*(.*?)(?:t1|t2|...|$)", text, re.DOTALL) from
\* the token at from on: a match starts at the first label, its content
\* ends before the first terminator after it or at the end of the text,
\* and the search goes on behind the terminator
RECURSIVE FindAll(_, _, _, _)
FindAll(text, label, terminators, from) ==
    LET starts == {i \in from..Len(text) : text[i] = label}
    IN  IF starts = {} THEN <<>>
        ELSE LET i == Min(starts)
                 stops == {j \in (SpaceEnd(text, i) + 1)..Len(text) :
                              text[j] \in terminators}
                 j == IF stops = {} THEN Len(text) + 1 ELSE Min(stops)
             IN  <<[at |-> i, content |-> Strip(SubSeq(text, i + 1, j - 1))]>>
                     \o FindAll(text, label, terminators, j + 1)

\* a search that gives the whole text when nothing matches
SearchFirstOrText(text, label, terminators) ==
    LET all == FindAll(text, label, terminators, 1)
    IN  IF all = <<>> THEN text ELSE all[1].content

\* re.search of such a pattern and group(1).strip(), "" without a match
SearchFirst(text, label, terminators) ==
    LET all == FindAll(text, label, terminators, 1)
    IN  IF all = <<>> THEN <<>> ELSE all[1].content

FinalAnswerLabel == "Final Answer:"

\* the labels the patterns of a grammar start with, in the order of the
\* parser's loops
Labels(arch) ==
    CASE arch = "react" -> <<"Thought:", "Action:", "Observation:">>
      [] arch = "ooda" ->
            <<"Observation:", "Orientation:", "Decision:", "Action:">>
      [] arch = "bdi" ->
            <<"Beliefs:", "Desires:", "Intentions:", "Execution:">>
      [] arch = "lat" -> <<"Problem:", "Branches:", "Selection:">>
      [] arch = "raise" ->
            <<"Task Analysis:", "Relevant Examples:", "Scratch Pad:">>
      [] arch = "rewoo" ->
            <<"Problem Analysis:", "Reasoning:", "Conclusion:">>

\* the keys the grouped parsers put the contents under
Fields(arch) ==
    CASE arch = "react" -> <<"thought", "action", "observation">>
      [] arch = "ooda" ->
            <<"observation", "orientation", "decision", "action">>
      [] arch = "bdi" -> <<"beliefs", "desires", "intentions", "execution">>
      [] arch = "lat" -> <<"problem", "branches", "selection">>

\* the alternatives that end the content of labels[k]: the other labels of
\* the grammar and the final answer label
Terminators(labels, k) ==
    (Range(labels) \ {labels[k]}) \cup {FinalAnswerLabel}

\* the loop over the matches of fields[k]: a non-empty match is taken into
\* the current group when the group has every earlier field; the first
\* field starts a new group, the last one closes the group
RECURSIVE TakeField(_, _, _, _)

\* a loop whose last field closes the group without starting a new one:
\* the current group stays and the next match of the last field closes it
\* again
TakeFieldKeepsCurrent(matches, fields, k, acc) ==
    IF matches = <<>> THEN acc
    ELSE LET m == Head(matches)
             taken == /\ m.content # <<>>
                      /\ \A p \in 1..(k - 1) : fields[p] \in DOMAIN acc.current
             next ==
                 IF ~taken THEN acc
                 ELSE IF k = 1
                 THEN [groups |-> acc.groups,
                       current |-> DictSet(EmptyMap, fields[1], m)]
                 ELSE IF k < Len(fields)
                 THEN [groups |-> acc.groups,
                       current |-> DictSet(acc.current, fields[k], m)]
                 ELSE [groups |->
                           Append(acc.groups,
                                  DictSet(acc.current, fields[k], m)),
                       current |-> acc.current]
         IN  TakeField(Tail(matches), fields, k, next)

TakeField(matches, fields, k, acc) ==
    IF matches = <<>> THEN acc
    ELSE LET m == Head(matches)
             taken == /\ m.content # <<>>
                      /\ \A p \in 1..(k - 1) : fields[p] \in DOMAIN acc.current
             next ==
                 IF ~taken THEN acc
                 ELSE IF k = 1
                 THEN [groups |-> acc.groups,
                       current |-> DictSet(EmptyMap, fields[1], m)]
                 ELSE IF k < Len(fields)
                 THEN [groups |-> acc.groups,
                       current |-> DictSet(acc.current, fields[k], m)]
                 ELSE [groups |->
                           Append(acc.groups,
                                  DictSet(acc.current, fields[k], m)),
                       current |-> EmptyMap]
         IN  TakeField(Tail(matches), fields, k, next)

\* the loops of a grouped parser, one label after the other, each over the
\* whole text
RECURSIVE TakeFields(_, _, _, _, _)
TakeFields(text, labels, fields, k, acc) ==
    IF k > Len(fields) THEN acc
    ELSE TakeFields(text, labels, fields, k + 1,
            TakeField(FindAll(text, labels[k], Terminators(labels, k), 1),
                      fields, k, acc))

\* ReActParser.parse; groups is the list "cycles"
ReActParse(text) ==
    LET last == TakeFields(text, Labels("react"), Fields("react"), 1,
                           [groups |-> <<>>, current |-> EmptyMap])
    IN  [groups |-> IF "thought" \in DOMAIN last.current
                    THEN Append(last.groups, last.current)
                    ELSE last.groups,
         final_answer |-> SearchFirst(text, FinalAnswerLabel, {"Thought:"}),
         raw_response |-> text]

\* OODAParser.parse and BDIParser.parse; groups is "loops" or "cycles"
GroupedParse(text, labels, fields) ==
    [groups |-> TakeFields(text, labels, fields, 1,
                           [groups |-> <<>>, current |-> EmptyMap]).groups,
     final_answer |-> SearchFirst(text, FinalAnswerLabel, {labels[1]}),
     raw_response |-> text]

\* a stripped text has lost the indentation of a label at its start, and
\* the patterns of the indented labels no longer match there
Unindented(text) ==
    IF text # <<>> /\ Head(text) \in Indented
    THEN <<"x">> \o Tail(text)
    ELSE text

\* parser.py 241-253: the options and the evaluations of a branches text,
\* paired by their order
Branches(branches_text) ==
    LET bt == Unindented(branches_text)
        options == FindAll(bt, OptionLabel, {EvaluationLabel}, 1)
        evaluations == FindAll(bt, EvaluationLabel, {OptionLabel}, 1)
        n == IF Len(options) <= Len(evaluations)
             THEN Len(options) ELSE Len(evaluations)
    IN  [i \in 1..n |-> [option |-> options[i].content,
                         evaluation |-> evaluations[i].content]]

\* the matches of "Branches:", each with its list of branches as content
BranchMatches(text) ==
    LET ms == FindAll(text, "Branches:", Terminators(Labels("lat"), 2), 1)
    IN  [i \in DOMAIN ms |->
            [at |-> ms[i].at, content |-> Branches(ms[i].content)]]

\* LATParser.parse; groups is the list "nodes"
LATParse(text) ==
    LET start == [groups |-> <<>>, current |-> EmptyMap]
        problems == TakeField(
            FindAll(text, "Problem:", Terminators(Labels("lat"), 1), 1),
            Fields("lat"), 1, start)
        branched == TakeField(BranchMatches(text), Fields("lat"), 2, problems)
        selected == TakeField(
            FindAll(text, "Selection:", Terminators(Labels("lat"), 3), 1),
            Fields("lat"), 3, branched)
    IN  [groups |-> selected.groups,
         final_answer |-> SearchFirst(text, FinalAnswerLabel, {"Problem:"}),
         raw_response |-> text]

\* parser.py 304-308 and 352-356: the steps of a stripped section
Steps(section) ==
    LET ms == FindAll(Unindented(section), StepLabel, {StepLabel}, 1)
    IN  [i \in DOMAIN ms |-> ms[i].content]

\* RAISEParser.parse
RAISEParse(text) ==
    LET section(k) ==
            SearchFirst(text, Labels("raise")[k],
                        Terminators(Labels("raise"), k))
    IN  [task_analysis |-> section(1),
         relevant_examples |-> section(2),
         scratch_pad |-> [raw |-> section(3), steps |-> Steps(section(3))],
         final_answer |->
             SearchFirst(text, FinalAnswerLabel, Range(Labels("raise"))),
         raw_response |-> text]

\* ReWOOParser.parse
ReWOOParse(text) ==
    LET section(k) ==
            SearchFirst(text, Labels("rewoo")[k],
                        Terminators(Labels("rewoo"), k))
    IN  [problem_analysis |-> section(1),
         reasoning |-> [raw |-> section(2), steps |-> Steps(section(2))],
         conclusion |-> section(3),
         final_answer |->
             SearchFirst(text, FinalAnswerLabel, Range(Labels("rewoo"))),
         raw_response |-> text]

\* create_parser(architecture).parse(text)
Parse(arch, text) ==
    CASE arch = "react" -> ReActParse(text)
      [] arch = "ooda" -> GroupedParse(text, Labels("ooda"), Fields("ooda"))
      [] arch = "bdi" -> GroupedParse(text, Labels("bdi"), Fields("bdi"))
      [] arch = "lat" -> LATParse(text)
      [] arch = "raise" -> RAISEParse(text)
      [] arch = "rewoo" -> ReWOOParse(text)

\* the tokens every text may have: the final answer label, a word and
\* white space
Words == {FinalAnswerLabel, "x", " "}

\* the tokens of the texts handed to the parser of a grammar
Tokens(arch) ==
    IF arch \notin Strategies THEN {}
    ELSE Words \cup Range(Labels(arch)) \cup
         (CASE arch = "lat" -> {OptionLabel, EvaluationLabel}
            [] arch \in {"raise", "rewoo"} -> {StepLabel}
            [] OTHER -> {})

\* ---------------------------------------------------------------------
\* The two-tier extraction of the stage calls: OODAAgent._extract_content
\* and BDIAgent._extract_section.
\* ---------------------------------------------------------------------
\* the label the fallback pattern of a field starts with, for the keys of
\* stage_patterns (ooda.py 231-236) and of patterns (bdi.py 356-361)
FallbackLabel(arch) ==
    CASE arch = "ooda" ->
            [observation |-> "Observation:", orientation |-> "Orientation:",
             decision |-> "Decision:", action |-> "Action:"]
      [] arch = "bdi" ->
            [beliefs |-> "Beliefs:", desires |-> "Desires:",
             intentions |-> "Intentions:", actions |-> "Actions:"]

\* the tokens that end the content of a fallback pattern: ooda names the
\* next label, bdi names word stems ("Desire", "Intention", "Action",
\* "Act", "Execution") and every token that holds one of them ends it
FallbackTerminators(arch) ==
    CASE arch = "ooda" ->
            [observation |-> {"Orientation:"}, orientation |-> {"Decision:"},
             decision |-> {"Action:"}, action |-> {}]
      [] arch = "bdi" ->
            [beliefs |-> {"Desires:", "Intentions:", "Actions:"},
             desires |-> {"Intentions:", "Actions:"},
             intentions |-> {"Actions:", "Execution:"},
             actions |-> {}]

\* the method without its last line: nothing stands in for an empty value
ExtractNoRawText(arch, response, field) ==
    LET groups == Parse(arch, response).groups
        having == {i \in DOMAIN groups : field \in DOMAIN groups[i]}
    IN  IF having # {} THEN groups[Min(having)][field].content
        ELSE IF field \in DOMAIN FallbackLabel(arch)
        THEN SearchFirst(response, FallbackLabel(arch)[field],
                         FallbackTerminators(arch)[field])
        ELSE <<>>

\* _extract_content(response, stage), _extract_section(response,
\* section_type): the field of the first parsed group that has it; when
\* that is empty, the match of the fallback pattern on raw_response (bdi
\* takes raw_response when the pattern does not match); when that is
\* empty too, the response
Extract(arch, response, field) ==
    LET p == Parse(arch, response)
        having == {i \in DOMAIN p.groups : field \in DOMAIN p.groups[i]}
        content == IF having = {} THEN <<>>
                   ELSE p.groups[Min(having)][field].content
        matches == IF field \in DOMAIN FallbackLabel(arch)
                   THEN FindAll(p.raw_response, FallbackLabel(arch)[field],
                                FallbackTerminators(arch)[field], 1)
                   ELSE <<>>
        second == IF content # <<>> THEN content
                  ELSE IF field \notin DOMAIN FallbackLabel(arch) THEN <<>>
                  ELSE IF matches # <<>> THEN matches[1].content
                  ELSE IF arch = "bdi" THEN p.raw_response
                  ELSE <<>>
    IN  IF second # <<>> THEN second ELSE response

\* the strategies that extract fields this way
ExtractStrategies == {"ooda", "bdi"}

\* the fields a caller can ask for: the keys of the pattern table and a
\* key the table does not have
ExtractFields(arch) == (DOMAIN FallbackLabel(arch)) \cup {"results"}

\* a response with one complete group of the grammar
FullGroup(arch) ==
    [i \in 1..(2 * Len(Labels(arch))) |->
        IF i % 2 = 1 THEN Labels(arch)[(i + 1) \div 2] ELSE "x"]

\* the responses handed to the extraction: every short text over the
\* tokens of the grammar, and texts around a complete group
ExtractTexts(arch) ==
    LET tokens == Tokens(arch) \cup Range(FallbackLabel(arch))
    IN  SeqsUpTo(tokens, MaxTokens) \cup
        {before \o FullGroup(arch) \o after :
            before \in SeqsUpTo(tokens, 1), after \in SeqsUpTo(tokens, 1)}

\* ---------------------------------------------------------------------
\* BaseAgent.create and the constructors of the strategies.
\* ---------------------------------------------------------------------
\* the architecture arguments create is called with
CreateArgs ==
    {"react", "ReAct", "OODA", "bdi", "Lat", "raise", "REWOO", "reflexion",
     ""}

\* str.lower() on these arguments
LowerTag(tag) ==
    CASE tag = "ReAct" -> "react"
      [] tag = "OODA" -> "ooda"
      [] tag = "Lat" -> "lat"
      [] tag = "REWOO" -> "rewoo"
      [] OTHER -> tag

\* the keys of architecture_map (base.py 173-180)
ArchitectureMap == Strategies

\* the keyword arguments a constructor reads with kwargs.get: the ones
\* of the strategy itself
Recognised(arch) ==
    CASE arch \in {"react", "ooda", "bdi"} -> {"max_iterations"}
      [] arch = "raise" -> {"examples", "max_iterations"}
      [] arch = "lat" -> {"max_depth", "max_branches", "search_strategy"}
      [] arch = "rewoo" ->
            {"reasoning_depth", "reasoning_style", "num_workers"}

\* the option names a caller passes: options of the strategies and one
\* that no strategy has
OptionNames ==
    {"max_iterations", "examples", "max_depth", "num_workers", "colour"}

\* the llm arguments: a supported provider, no "provider:model" form, an
\* unsupported provider
LlmArgs == {"openai:gpt-4", "gpt-4", "local:gpt-4"}

\* create_llm(llm): a client, or the error it raises (the format and the
\* provider are checked in llm.py 183-193; the client of a supported
\* provider raises when its package or its API key is missing)
CreateLlmOutcomes(l) ==
    IF l = "openai:gpt-4"
    THEN {"client", "ImportError", "ValueError: API key not found"}
    ELSE IF l = "gpt-4" THEN {"ValueError: Invalid provider_model format"}
    ELSE {"ValueError: Unsupported LLM provider"}

\* the attributes a constructor sets from its keyword arguments: each is
\* the value given or its default
Construct(arch, given, verbose_flag) ==
    [class |-> arch,
     verbose |-> verbose_flag,
     attributes |-> [a \in Recognised(arch) |->
                        IF a \in given THEN "given" ELSE "default"]]

\* what BaseAgent.__init__ does before the strategy creates its client
InitTrace(verbose_flag) ==
    <<"__init__">> \o (IF verbose_flag THEN <<"log">> ELSE <<>>)

\* ---------------------------------------------------------------------
\* core/tools.py: ToolRegistry.  The dict self.tools is a sequence of
\* entries [name, tool] in the insertion order of the names.
\* ---------------------------------------------------------------------
MaxRegistrations == 3

\* the names tools are registered and asked for under
ToolNames == {"search", "Search", "calc"}

\* the k-th tool object handed to register, constructed with this name
Tool(name, k) == [name |-> name, object |-> k]

\* what get returns for a name that is no key
None == [name |-> "None", object |-> 0]

\* the places of a key in the dict
PlacesOf(tools, name) == {i \in DOMAIN tools : tools[i].name = name}

\* a register that appends an entry whatever the dict holds
RegisterAppends(tools, tool) ==
    Append(tools, [name |-> tool.name, tool |-> tool])

\* register(tool): self.tools[tool.name] = tool
Register(tools, tool) ==
    IF PlacesOf(tools, tool.name) = {}
    THEN Append(tools, [name |-> tool.name, tool |-> tool])
    ELSE [i \in DOMAIN tools |->
             IF tools[i].name = tool.name
             THEN [name |-> tool.name, tool |-> tool]
             ELSE tools[i]]

\* get(name): self.tools.get(name)
Get(tools, name) ==
    IF PlacesOf(tools, name) = {} THEN None
    ELSE tools[Min(PlacesOf(tools, name))].tool

\* list(): list(self.tools.values())
List(tools) == [i \in DOMAIN tools |-> tools[i].tool]

\* ---------------------------------------------------------------------
\* The initial context of a run: _set_up_initial_context of react and
\* _initialize_context of the other strategies.
\* ---------------------------------------------------------------------
\* the keys of the dict literal the method starts from
ControllerKeys(arch) ==
    CASE arch = "react" ->
            {"task", "thoughts", "actions", "observations",
             "available_tools", "tool_descriptions"}
      [] arch = "ooda" ->
            {"task", "observations", "orientations", "decisions", "actions",
             "available_tools", "tool_descriptions"}
      [] arch = "bdi" ->
            {"task", "beliefs", "desires", "intentions", "selected_actions",
             "actions_results", "available_tools", "tool_descriptions"}
      [] arch = "raise" ->
            {"task", "available_tools", "tool_descriptions", "examples"}
      [] arch = "lat" -> {"task", "available_tools", "tool_descriptions"}
      [] arch = "rewoo" -> {"task", "context_info", "exemplars"}

\* the value the method itself gives to a key, and the value a caller
\* gives to a key of kwargs["context"]
ControllerValue(key) == [by |-> "controller", key |-> key]
CallerValue(key) == [by |-> "caller", key |-> key]

CallerKeys == {"task", "available_tools", "observations", "notes"}

\* kwargs["context"]: absent, a dict, or something that is no dict
ExtraContexts ==
    {NoContext, [kind |-> "other"]} \cup
    {[kind |-> "dict", items |-> [k \in keys |-> CallerValue(k)]] :
        keys \in SUBSET CallerKeys}

\* a merge in which the caller's value wins
InitializeContextCallerWins(arch, extra) ==
    LET initial == [k \in ControllerKeys(arch) |-> ControllerValue(k)]
    IN  IF extra.kind # "dict" THEN initial
        ELSE DictMerge(initial, extra.items)

\* the context the method returns to a run that passes no exemplars
InitializeContext(arch, extra) ==
    LET initial == [k \in ControllerKeys(arch) |->
                       IF k = "context_info" THEN EmptyMap
                       ELSE ControllerValue(k)]
    IN  IF extra.kind # "dict" THEN initial
        ELSE IF arch = "rewoo"
        THEN [initial EXCEPT !["context_info"] = extra.items]
        ELSE [k \in (DOMAIN initial) \cup (DOMAIN extra.items) |->
                 IF k \in DOMAIN initial THEN initial[k] ELSE extra.items[k]]

\* ---------------------------------------------------------------------
\* One run of execute.  The agent is constructed by AgentInit; each
\* strategy then goes through its own stages.
\* ---------------------------------------------------------------------
Budgets == 0..MaxBudget

\* BaseAgent.create and the __init__ of the strategy: max_iterations (or
\* max_depth), num_workers and the tools come from the keyword arguments
AgentInit ==
    /\ architecture \in Strategies
    /\ max_iterations \in Budgets
    /\ architecture = "rewoo" => max_iterations = 0
    /\ num_workers \in 0..MaxWorkers
    /\ architecture # "rewoo" => num_workers = 0
    /\ has_tools \in BOOLEAN
    /\ architecture \in {"lat", "rewoo"} => has_tools = FALSE
    /\ apc = "start"
    /\ iterations = 0
    /\ is_done = FALSE
    /\ output = <<>>
    /\ gateway_calls = <<>>
    /\ intermediate_steps = <<>>
    /\ scratch_pad = <<>>
    /\ worker_tasks = 0
    /\ worker_id = 0
    /\ tool_log = <<>>
    /\ check_response = <<>>
    /\ step_responses = <<>>
    /\ parse_text = <<>>
    /\ parsed = <<>>
    /\ extra_context = NoContext
    /\ context = <<>>
    /\ verbose \in BOOLEAN
    /\ format_output \in BOOLEAN
    /\ run_value = <<>>
    /\ aerror = "none"

\* the loop test "while not is_done and iterations < self.max_iterations"
LoopContinues == apc = "loop" /\ ~is_done /\ iterations < max_iterations
LoopExits == apc = "loop" /\ (is_done \/ iterations >= max_iterations)

\* react, ooda, bdi: the context is set up and the locals are initialised
ExecuteStartLoop ==
    /\ apc = "start"
    /\ architecture \in {"react", "ooda", "bdi"}
    /\ apc' = "loop"
    /\ UNCHANGED <<architecture, max_iterations, num_workers, has_tools,
                   iterations, is_done, output, gateway_calls,
                   intermediate_steps, scratch_pad, worker_tasks, worker_id,
                   aerror>>
    /\ UNCHANGED tool_log
    /\ UNCHANGED check_response
    /\ UNCHANGED <<step_responses, parse_text, parsed, ctxvars, runvars>>
    /\ UNCHANGED <<wvars, xvars>>
    /\ state' = Initializing(state)
    /\ context_lists' = ContextLists(architecture)
    /\ UNCHANGED <<worker_results, solver_prompt, ran_before, current_path>>

\* what a tool dispatch (_execute_action, _execute_actions, _use_tools)
\* can come to: the text names no tool, it names a tool that was not
\* supplied, the tool returns, the tool raises
ToolOutcomes(tools) ==
    {"no_tool_use", "not_found"}
        \cup (IF tools THEN {"returned", "raised"} ELSE {})

\* the text the dispatch returns for an outcome
ActionResult(arch, outcome) ==
    CASE outcome = "returned" ->
            IF arch = "react" THEN "Tool returned" ELSE "Used tool"
      [] outcome = "raised" ->
            IF arch = "react" THEN "Error executing action"
            ELSE "Error executing tool"
      [] outcome = "not_found" ->
            IF arch = "react" THEN "Error: Tool not found"
            ELSE "Could not find tool"
      [] OTHER ->
            IF arch = "react" THEN "Action was taken"
            ELSE IF arch = "raise" THEN "Unclear tool usage"
            ELSE "Action taken"

\* an entry of tool_log: the outcome and the text that was recorded
\* for it in the step trace ("nothing" when execute raised first)
Dispatch(outcome, recorded) == [outcome |-> outcome, recorded |-> recorded]

\* the responses the gateway gives to the next-step calls
ReactResponses ==
    {<<>>,
     <<"compute">>,
     <<"Thought:", " ", "compute">>,
     <<"Thought:", " ", "compute", " ", "Action:", " ", "none", " ",
       "Observation:", " ", "n/a">>,
     <<"Final Answer:", " ", "4">>,
     <<"Thought:", " ", "compute", " ", "Final Answer:", " ", "4">>,
     <<"Action:", " ", "none", " ", "Thought:", " ", "compute", " ",
       "Final Answer:", " ", "4">>}

\* a next step that looks for the final answer only in a response with a
\* cycle
GetNextStepNeedsCycle(response) ==
    LET parsed_response == ReActParse(response)
        cycles == parsed_response.groups
        last_cycle == cycles[Len(cycles)]
        from_cycle(field) ==
            IF cycles # <<>> /\ field \in DOMAIN last_cycle
            THEN last_cycle[field].content
            ELSE <<>>
    IN  [thought |-> IF cycles = <<>> THEN response ELSE from_cycle("thought"),
         action |-> from_cycle("action"),
         final_answer |-> IF cycles = <<>> THEN <<>>
                          ELSE parsed_response.final_answer]

\* _get_next_step, given the gateway's response; "" stands for a key that
\* is not in the result
GetNextStep(response) ==
    LET parsed_response == ReActParse(response)
        cycles == parsed_response.groups
        last_cycle == cycles[Len(cycles)]
        from_cycle(field) ==
            IF cycles # <<>> /\ field \in DOMAIN last_cycle
            THEN last_cycle[field].content
            ELSE <<>>
        empty == /\ from_cycle("thought") = <<>>
                 /\ from_cycle("action") = <<>>
                 /\ parsed_response.final_answer = <<>>
    IN  [thought |-> IF empty THEN response ELSE from_cycle("thought"),
         action |-> from_cycle("action"),
         final_answer |-> parsed_response.final_answer]

\* react.py 79-124: one pass of the loop
ReactIteration ==
    /\ architecture = "react"
    /\ LoopContinues
    /\ iterations' = iterations + 1
    /\ gateway_calls' = Append(gateway_calls, StageCall("next_step"))
    /\ \E response \in ReactResponses :
          LET next_step == GetNextStep(response)
          IN  /\ step_responses' = Append(step_responses, response)
              /\ intermediate_steps' = intermediate_steps
                    \o (IF next_step.thought # <<>>
                        THEN <<"thought">> ELSE <<>>)
                    \o (IF next_step.action # <<>>
                        THEN <<"action">> ELSE <<>>)
              /\ context_lists' = AppendTo(AppendTo(context_lists,
                    IF next_step.thought # <<>>
                    THEN {"thoughts"} ELSE {}),
                    IF next_step.action # <<>>
                    THEN {"actions", "observations"} ELSE {})
              /\ state' =
                    LET thinking ==
                          IF next_step.thought # <<>>
                          THEN UpdateState(state,
                                  [stage |-> <<"thinking">>,
                                   step_count |-> iterations + 1,
                                   add_to_history |-> "thought"])
                          ELSE state
                    IN  IF next_step.action # <<>>
                        THEN UpdateState(thinking,
                                [stage |-> <<"acting">>,
                                 step_count |-> iterations + 1,
                                 add_to_history |-> "action_observation"])
                        ELSE thinking
              /\ is_done' = (next_step.final_answer # <<>>)
              /\ output' = IF next_step.final_answer # <<>>
                           THEN next_step.final_answer ELSE output
              /\ IF next_step.action # <<>>
                 THEN \E outcome \in ToolOutcomes(has_tools) :
                         tool_log' = Append(tool_log,
                            Dispatch(outcome, ActionResult("react", outcome)))
                 ELSE UNCHANGED tool_log
    /\ UNCHANGED <<architecture, max_iterations, num_workers, has_tools, apc,
                   scratch_pad, worker_tasks, worker_id, aerror>>
    /\ UNCHANGED check_response
    /\ UNCHANGED <<parse_text, parsed, ctxvars, runvars>>
    /\ UNCHANGED <<wvars, xvars>>
    /\ UNCHANGED <<worker_results, solver_prompt, ran_before, current_path>>

\* a pass that records the action before the decision
OodaIterationActionFirst ==
    /\ architecture = "ooda"
    /\ LoopContinues
    /\ iterations' = iterations + 1
    /\ intermediate_steps' = intermediate_steps
          \o <<"observation", "orientation", "action", "decision">>
    /\ gateway_calls' = gateway_calls
          \o <<StageCall("observation"), StageCall("orientation"),
               StageCall("decision"), StageCall("check_completion")>>
    /\ \E response \in LoopCheckResponses :
          /\ check_response' = response
          /\ is_done' = CheckCompletion(response).is_complete
          /\ output' = CheckCompletion(response).final_answer
    /\ UNCHANGED <<architecture, max_iterations, num_workers, has_tools, apc,
                   scratch_pad, worker_tasks, worker_id, aerror>>
    /\ \E outcome \in ToolOutcomes(has_tools) :
          tool_log' = Append(tool_log,
             Dispatch(outcome, ActionResult("ooda", outcome)))
    /\ UNCHANGED <<step_responses, parse_text, parsed, ctxvars, runvars>>
    /\ UNCHANGED <<wvars, xvars>>
    /\ context_lists' = AppendTo(context_lists,
          {"observations", "orientations", "decisions", "actions"})
    /\ state' = UpdateState(state,
          [stage |-> IterationStage(iterations + 1),
           step_count |-> iterations + 1,
           add_to_history |-> "observe, orient, decide, act"])
    /\ UNCHANGED <<worker_results, solver_prompt, ran_before, current_path>>

\* ooda.py 60-104: one pass of the loop
OodaIteration ==
    /\ architecture = "ooda"
    /\ LoopContinues
    /\ iterations' = iterations + 1
    /\ intermediate_steps' = intermediate_steps
          \o <<"observation", "orientation", "decision", "action">>
    /\ gateway_calls' = gateway_calls
          \o <<StageCall("observation"), StageCall("orientation"),
               StageCall("decision"), StageCall("check_completion")>>
    /\ \E response \in LoopCheckResponses :
          /\ check_response' = response
          /\ is_done' = CheckCompletion(response).is_complete
          /\ output' = CheckCompletion(response).final_answer
    /\ UNCHANGED <<architecture, max_iterations, num_workers, has_tools, apc,
                   scratch_pad, worker_tasks, worker_id, aerror>>
    /\ \E outcome \in ToolOutcomes(has_tools) :
          tool_log' = Append(tool_log,
             Dispatch(outcome, ActionResult("ooda", outcome)))
    /\ UNCHANGED <<step_responses, parse_text, parsed, ctxvars, runvars>>
    /\ UNCHANGED <<wvars, xvars>>
    /\ context_lists' = AppendTo(context_lists,
          {"observations", "orientations", "decisions", "actions"})
    /\ state' = UpdateState(state,
          [stage |-> IterationStage(iterations + 1),
           step_count |-> iterations + 1,
           add_to_history |-> "observe, orient, decide, act"])
    /\ UNCHANGED <<worker_results, solver_prompt, ran_before, current_path>>

\* bdi.py 58-99: one pass of the loop
BdiIteration ==
    /\ architecture = "bdi"
    /\ LoopContinues
    /\ iterations' = iterations + 1
    /\ intermediate_steps' = intermediate_steps
          \o <<"beliefs", "desires", "intentions", "actions", "results">>
    /\ gateway_calls' = gateway_calls
          \o <<StageCall("beliefs"), StageCall("desires"),
               StageCall("intentions"), StageCall("actions"),
               StageCall("check_completion")>>
    /\ \E response \in LoopCheckResponses :
          /\ check_response' = response
          /\ is_done' = CheckCompletion(response).is_complete
          /\ output' = CheckCompletion(response).final_answer
    /\ UNCHANGED <<architecture, max_iterations, num_workers, has_tools, apc,
                   scratch_pad, worker_tasks, worker_id, aerror>>
    /\ \E outcome \in ToolOutcomes(has_tools) :
          tool_log' = Append(tool_log,
             Dispatch(outcome, ActionResult("bdi", outcome)))
    /\ UNCHANGED <<step_responses, parse_text, parsed, ctxvars, runvars>>
    /\ UNCHANGED <<wvars, xvars>>
    /\ context_lists' = AppendTo(context_lists,
          {"beliefs", "desires", "intentions", "selected_actions",
           "actions_results"})
    /\ state' = UpdateState(state,
          [stage |-> IterationStage(iterations + 1),
           step_count |-> iterations + 1,
           add_to_history |->
              "beliefs, desires, intentions, actions, results"])
    /\ UNCHANGED <<worker_results, solver_prompt, ran_before, current_path>>

\* raise_agent.py 53-55: the scratch pad is initialised before the loop
RaiseInitializeScratchPad ==
    /\ architecture = "raise"
    /\ apc = "start"
    /\ \E response \in PadResponses :
          scratch_pad' = InitializeScratchPad(response, has_tools)
    /\ gateway_calls' = Append(gateway_calls, StageCall("scratch_pad_init"))
    /\ apc' = "loop"
    /\ UNCHANGED <<architecture, max_iterations, num_workers, has_tools,
                   iterations, is_done, output, intermediate_steps,
                   worker_tasks, worker_id, aerror>>
    /\ UNCHANGED tool_log
    /\ UNCHANGED check_response
    /\ UNCHANGED <<step_responses, parse_text, parsed, ctxvars, runvars>>
    /\ UNCHANGED <<wvars, xvars>>
    /\ state' = StageState(Initializing(state), "scratch_pad_init")
    /\ UNCHANGED <<context_lists, worker_results, solver_prompt, ran_before,
                   current_path>>

\* a stage of raise: one _generate_llm_step call, the update of a section
\* of the scratch pad, then the append to intermediate_steps.  The
\* IndexError of the update is caught nowhere.
RaiseStage(stage, section, content, next_pc) ==
    LET updated == UpdateScratchPad(scratch_pad, section, content)
    IN  /\ gateway_calls' = Append(gateway_calls, StageCall(stage))
        /\ state' = StageState(state, stage)
        /\ IF updated.ok
           THEN /\ scratch_pad' = updated.pad
                /\ intermediate_steps' = Append(intermediate_steps, stage)
                /\ apc' = next_pc
                /\ UNCHANGED aerror
           ELSE /\ apc' = "raised"
                /\ aerror' = "IndexError"
                /\ UNCHANGED <<scratch_pad, intermediate_steps>>

\* raise_agent.py 64-73
RaiseExamples ==
    /\ architecture = "raise"
    /\ LoopContinues
    /\ iterations' = iterations + 1
    /\ \E content \in ContentResponses :
          RaiseStage("examples", "Examples", content, "thoughts")
    /\ UNCHANGED <<architecture, max_iterations, num_workers, has_tools,
                   is_done, output, worker_tasks, worker_id>>
    /\ UNCHANGED tool_log
    /\ UNCHANGED check_response
    /\ UNCHANGED <<step_responses, parse_text, parsed, ctxvars, runvars>>
    /\ UNCHANGED <<wvars, xvars>>
    /\ UNCHANGED <<context_lists, worker_results, solver_prompt, ran_before,
                   current_path>>

\* raise_agent.py 76-81
RaiseThoughts ==
    /\ architecture = "raise"
    /\ apc = "thoughts"
    /\ \E content \in ContentResponses :
          RaiseStage("thoughts", "Thoughts", content, "should_use_tools")
    /\ UNCHANGED <<architecture, max_iterations, num_workers, has_tools,
                   iterations, is_done, output, worker_tasks, worker_id>>
    /\ UNCHANGED tool_log
    /\ UNCHANGED check_response
    /\ UNCHANGED <<step_responses, parse_text, parsed, ctxvars, runvars>>
    /\ UNCHANGED <<wvars, xvars>>
    /\ UNCHANGED <<context_lists, worker_results, solver_prompt, ran_before,
                   current_path>>

\* raise_agent.py 84 and _should_use_tools: without tools the gateway is
\* not asked
RaiseShouldUseTools ==
    /\ architecture = "raise"
    /\ apc = "should_use_tools"
    /\ IF ~has_tools
       THEN /\ apc' = "working_memory"
            /\ UNCHANGED gateway_calls
       ELSE /\ gateway_calls' =
                  Append(gateway_calls, StageCall("should_use_tools"))
            /\ apc' \in {"use_tools", "working_memory"}
    /\ UNCHANGED <<architecture, max_iterations, num_workers, has_tools,
                   iterations, is_done, output, intermediate_steps,
                   scratch_pad, worker_tasks, worker_id, aerror>>
    /\ UNCHANGED tool_log
    /\ UNCHANGED check_response
    /\ UNCHANGED <<step_responses, parse_text, parsed, ctxvars, runvars>>
    /\ UNCHANGED <<wvars, xvars, svars>>

\* raise_agent.py 86-91 and _use_tools: the gateway picks a tool; whatever
\* the tool does, the outcome is a text
RaiseUseTools ==
    /\ architecture = "raise"
    /\ apc = "use_tools"
    /\ LET updated == UpdateScratchPad(scratch_pad, "Tool Results", <<Text>>)
       IN  /\ gateway_calls' = Append(gateway_calls, StageCall("use_tools"))
           /\ \E outcome \in ToolOutcomes(has_tools) :
               IF updated.ok
               THEN /\ scratch_pad' = updated.pad
                    /\ intermediate_steps' =
                          Append(intermediate_steps, "tool_results")
                    /\ tool_log' = Append(tool_log,
                          Dispatch(outcome, ActionResult("raise", outcome)))
                    /\ apc' = "observations"
                    /\ UNCHANGED aerror
               ELSE /\ tool_log' =
                          Append(tool_log, Dispatch(outcome, "nothing"))
                    /\ apc' = "raised"
                    /\ aerror' = "IndexError"
                    /\ UNCHANGED <<scratch_pad, intermediate_steps>>
    /\ UNCHANGED <<architecture, max_iterations, num_workers, has_tools,
                   iterations, is_done, output, worker_tasks, worker_id>>
    /\ UNCHANGED check_response
    /\ UNCHANGED <<step_responses, parse_text, parsed, ctxvars, runvars>>
    /\ UNCHANGED <<wvars, xvars, svars>>

\* raise_agent.py 94-100
RaiseObservations ==
    /\ architecture = "raise"
    /\ apc = "observations"
    /\ \E content \in ContentResponses :
          RaiseStage("observations", "Observations", content,
                     "working_memory")
    /\ UNCHANGED <<architecture, max_iterations, num_workers, has_tools,
                   iterations, is_done, output, worker_tasks, worker_id>>
    /\ UNCHANGED tool_log
    /\ UNCHANGED check_response
    /\ UNCHANGED <<step_responses, parse_text, parsed, ctxvars, runvars>>
    /\ UNCHANGED <<wvars, xvars>>
    /\ UNCHANGED <<context_lists, worker_results, solver_prompt, ran_before,
                   current_path>>

\* raise_agent.py 103-114: a response that looks like a pad replaces the
\* pad, any other response becomes the Progress Summary section
RaiseWorkingMemory ==
    /\ architecture = "raise"
    /\ apc = "working_memory"
    /\ gateway_calls' = Append(gateway_calls, StageCall("working_memory"))
    /\ state' = StageState(state, "working_memory")
    /\ \E updated_pad \in PadResponses :
          IF LooksLikePad(updated_pad)
          THEN /\ scratch_pad' = updated_pad
               /\ apc' = "check_completion"
               /\ UNCHANGED aerror
          ELSE LET updated == UpdateScratchPad(scratch_pad,
                                  "Progress Summary", updated_pad)
               IN  IF updated.ok
                   THEN /\ scratch_pad' = updated.pad
                        /\ apc' = "check_completion"
                        /\ UNCHANGED aerror
                   ELSE /\ apc' = "raised"
                        /\ aerror' = "IndexError"
                        /\ UNCHANGED scratch_pad
    /\ UNCHANGED <<architecture, max_iterations, num_workers, has_tools,
                   iterations, is_done, output, intermediate_steps,
                   worker_tasks, worker_id>>
    /\ UNCHANGED tool_log
    /\ UNCHANGED check_response
    /\ UNCHANGED <<step_responses, parse_text, parsed, ctxvars, runvars>>
    /\ UNCHANGED <<wvars, xvars>>
    /\ UNCHANGED <<context_lists, worker_results, solver_prompt, ran_before,
                   current_path>>

\* raise_agent.py 117 and _check_completion
RaiseCheckCompletion ==
    /\ architecture = "raise"
    /\ apc = "check_completion"
    /\ gateway_calls' = Append(gateway_calls, StageCall("check_completion"))
    /\ \E response \in LoopCheckResponses :
          /\ check_response' = response
          /\ is_done' = CheckCompletion(response).is_complete
          /\ output' = CheckCompletion(response).final_answer
    /\ apc' = "loop"
    /\ UNCHANGED <<architecture, max_iterations, num_workers, has_tools,
                   iterations, intermediate_steps, scratch_pad, worker_tasks,
                   worker_id, aerror>>
    /\ UNCHANGED tool_log
    /\ UNCHANGED <<step_responses, parse_text, parsed, ctxvars, runvars>>
    /\ UNCHANGED <<wvars, xvars>>
    /\ state' = UpdateState(state,
          [stage |-> IterationStage(iterations),
           step_count |-> iterations,
           add_to_history |->
              "scratch_pad, examples, thoughts, tool_results"])
    /\ UNCHANGED <<context_lists, worker_results, solver_prompt, ran_before,
                   current_path>>

\* a bdi partial answer without the notice
GeneratePartialAnswerPlain(arch, r) == <<r>>

\* _generate_partial_answer: the response of one more gateway call; bdi
\* puts the notice in front of it itself
GeneratePartialAnswer(arch, r) ==
    IF arch = "bdi" THEN <<Notice, r>> ELSE <<r>>

\* the statement after the loop, "if not is_done: final_answer = ..."
ExhaustedAnswer(arch, r) ==
    IF arch = "bdi" THEN GeneratePartialAnswer(arch, r)
    ELSE <<Notice>> \o GeneratePartialAnswer(arch, r)

\* an exit that looks at the budget first: a run that has used its budget
\* is taken for exhausted whatever its last check has said
ExhaustedReturnOnBudget ==
    /\ architecture \in {"react", "ooda", "bdi", "raise"}
    /\ LoopExits
    /\ iterations >= max_iterations
    /\ \E r \in Responses :
          /\ gateway_calls' = Append(gateway_calls, Call("partial_answer", r))
          /\ output' = ExhaustedAnswer(architecture, r)
    /\ apc' = "done"
    /\ UNCHANGED <<architecture, max_iterations, num_workers, has_tools,
                   iterations, is_done, intermediate_steps, scratch_pad,
                   worker_tasks, worker_id, aerror>>
    /\ UNCHANGED tool_log
    /\ UNCHANGED check_response
    /\ UNCHANGED <<step_responses, parse_text, parsed, ctxvars, runvars>>
    /\ UNCHANGED <<wvars, xvars>>
    /\ state' = IF architecture = "react"
                THEN UpdateState(state, [stage |-> <<"completed">>,
                                         add_to_history |-> "final_answer"])
                ELSE state
    /\ UNCHANGED <<context_lists, worker_results, solver_prompt, ran_before,
                   current_path>>

\* react, ooda, bdi, raise: the loop ended on the budget; the partial
\* answer is asked for and the result is returned
ExhaustedReturn ==
    /\ architecture \in {"react", "ooda", "bdi", "raise"}
    /\ LoopExits
    /\ ~is_done
    /\ \E r \in Responses :
          /\ gateway_calls' = Append(gateway_calls, Call("partial_answer", r))
          /\ output' = ExhaustedAnswer(architecture, r)
    /\ apc' = "done"
    /\ UNCHANGED <<architecture, max_iterations, num_workers, has_tools,
                   iterations, is_done, intermediate_steps, scratch_pad,
                   worker_tasks, worker_id, aerror>>
    /\ UNCHANGED tool_log
    /\ UNCHANGED check_response
    /\ UNCHANGED <<step_responses, parse_text, parsed, ctxvars, runvars>>
    /\ UNCHANGED <<wvars, xvars>>
    /\ state' = IF architecture = "react"
                THEN UpdateState(state, [stage |-> <<"completed">>,
                                         add_to_history |-> "final_answer"])
                ELSE state
    /\ UNCHANGED <<context_lists, worker_results, solver_prompt, ran_before,
                   current_path>>

\* react, ooda, bdi, raise: the loop ended on is_done; the result is
\* returned
CompletedReturn ==
    /\ architecture \in {"react", "ooda", "bdi", "raise"}
    /\ LoopExits
    /\ is_done
    /\ apc' = "done"
    /\ UNCHANGED <<architecture, max_iterations, num_workers, has_tools,
                   iterations, is_done, output, gateway_calls,
                   intermediate_steps, scratch_pad, worker_tasks, worker_id,
                   aerror>>
    /\ UNCHANGED tool_log
    /\ UNCHANGED check_response
    /\ UNCHANGED <<step_responses, parse_text, parsed, ctxvars, runvars>>
    /\ UNCHANGED <<wvars, xvars>>
    /\ state' = IF architecture = "react"
                THEN UpdateState(state, [stage |-> <<"completed">>,
                                         add_to_history |-> "final_answer"])
                ELSE state
    /\ UNCHANGED <<context_lists, worker_results, solver_prompt, ran_before,
                   current_path>>

\* lat.py 55-63: the decision tree is created before the loop
LatCreateDecisionTree ==
    /\ architecture = "lat"
    /\ apc = "start"
    /\ gateway_calls' =
          Append(gateway_calls, StageCall("decision_tree_creation"))
    /\ intermediate_steps' =
          Append(intermediate_steps, "decision_tree_creation")
    /\ apc' = "loop"
    /\ UNCHANGED <<architecture, max_iterations, num_workers, has_tools,
                   iterations, is_done, output, scratch_pad, worker_tasks,
                   worker_id, aerror>>
    /\ UNCHANGED tool_log
    /\ UNCHANGED check_response
    /\ UNCHANGED <<step_responses, parse_text, parsed, ctxvars, runvars>>
    /\ UNCHANGED <<wvars, xvars>>
    /\ state' = StageState(Initializing(state), "decision_tree_creation")
    /\ UNCHANGED <<context_lists, worker_results, solver_prompt, ran_before,
                   current_path>>

\* a pass that does not break out of the loop on a terminal node
LatIterationNoBreak ==
    /\ architecture = "lat"
    /\ apc = "loop"
    /\ iterations < max_iterations
    /\ iterations' = iterations + 1
    /\ current_path' = Append(current_path, "node")
    /\ \E need_simulation \in BOOLEAN : \E terminal \in BOOLEAN :
          /\ gateway_calls' = gateway_calls
                \o <<StageCall("node_selection"),
                     StageCall("need_simulation")>>
                \o (IF need_simulation
                    THEN <<StageCall("simulation"),
                           StageCall("process_simulation")>>
                    ELSE <<>>)
                \o <<Call("is_terminal_state",
                          IF terminal THEN "yes" ELSE "no")>>
          /\ intermediate_steps' = intermediate_steps
                \o <<"node_selection">>
                \o (IF need_simulation THEN <<"simulation", "reflection">>
                    ELSE <<>>)
          /\ state' =
                LET selected == StageState(state, "node_selection")
                IN  IF need_simulation
                    THEN StageState(StageState(selected, "simulation"),
                                    "process_simulation")
                    ELSE selected
          /\ is_done' = terminal
          /\ apc' = "loop"
    /\ UNCHANGED <<architecture, max_iterations, num_workers, has_tools,
                   output, scratch_pad, worker_tasks, worker_id, aerror>>
    /\ UNCHANGED tool_log
    /\ UNCHANGED check_response
    /\ UNCHANGED <<step_responses, parse_text, parsed, ctxvars, runvars>>
    /\ UNCHANGED <<wvars, xvars>>
    /\ UNCHANGED <<context_lists, worker_results, solver_prompt, ran_before>>

\* lat.py 65-98: one pass of "while current_depth < self.max_depth"; the
\* terminal-state check comes last and breaks out of the loop
LatIteration ==
    /\ architecture = "lat"
    /\ apc = "loop"
    /\ iterations < max_iterations
    /\ iterations' = iterations + 1
    /\ current_path' = Append(current_path, "node")
    /\ \E need_simulation \in BOOLEAN : \E terminal \in BOOLEAN :
          /\ gateway_calls' = gateway_calls
                \o <<StageCall("node_selection"),
                     StageCall("need_simulation")>>
                \o (IF need_simulation
                    THEN <<StageCall("simulation"),
                           StageCall("process_simulation")>>
                    ELSE <<>>)
                \o <<Call("is_terminal_state",
                          IF terminal THEN "yes" ELSE "no")>>
          /\ intermediate_steps' = intermediate_steps
                \o <<"node_selection">>
                \o (IF need_simulation THEN <<"simulation", "reflection">>
                    ELSE <<>>)
          /\ state' =
                LET selected == StageState(state, "node_selection")
                IN  IF need_simulation
                    THEN StageState(StageState(selected, "simulation"),
                                    "process_simulation")
                    ELSE selected
          /\ is_done' = terminal
          /\ apc' = IF terminal THEN "after_loop" ELSE "loop"
    /\ UNCHANGED <<architecture, max_iterations, num_workers, has_tools,
                   output, scratch_pad, worker_tasks, worker_id, aerror>>
    /\ UNCHANGED tool_log
    /\ UNCHANGED check_response
    /\ UNCHANGED <<step_responses, parse_text, parsed, ctxvars, runvars>>
    /\ UNCHANGED <<wvars, xvars>>
    /\ UNCHANGED <<context_lists, worker_results, solver_prompt, ran_before>>

\* lat.py 100-126: the best path is selected, the output is generated and
\* returned as it is
LatReturn ==
    /\ architecture = "lat"
    /\ \/ apc = "after_loop"
       \/ apc = "loop" /\ iterations >= max_iterations
    /\ \E r \in Responses :
          /\ gateway_calls' = gateway_calls
                \o <<StageCall("best_path_selection"),
                     Call("output_generation", r)>>
          /\ output' = <<r>>
    /\ intermediate_steps' = intermediate_steps
          \o <<"best_path_selection", "output_generation">>
    /\ apc' = "done"
    /\ UNCHANGED <<architecture, max_iterations, num_workers, has_tools,
                   iterations, is_done, scratch_pad, worker_tasks, worker_id,
                   aerror>>
    /\ UNCHANGED tool_log
    /\ UNCHANGED check_response
    /\ UNCHANGED <<step_responses, parse_text, parsed, ctxvars, runvars>>
    /\ UNCHANGED <<wvars, xvars>>
    /\ state' = StageState(StageState(state, "best_path_selection"),
                            "output_generation")
    /\ UNCHANGED <<context_lists, worker_results, solver_prompt, ran_before,
                   current_path>>

\* _assign_worker_tasks: the tasks a pattern finds are cut to num_workers;
\* when no pattern finds any, _create_default_tasks makes num_workers
AssignedTasks(found, workers) ==
    IF found = 0 THEN workers
    ELSE IF found < workers THEN found ELSE workers

\* rewoo.py 50-66: the plan is made; when no pattern finds a task in it,
\* the gateway is asked to extract the tasks
RewooPlan ==
    /\ architecture = "rewoo"
    /\ apc = "start"
    /\ \E in_plan \in 0..(num_workers + 1) :
       \E in_extraction \in 0..(num_workers + 1) :
          /\ in_plan > 0 => in_extraction = 0
          /\ gateway_calls' = gateway_calls \o <<StageCall("plan")>>
                \o (IF in_plan = 0 THEN <<StageCall("task_extraction")>>
                    ELSE <<>>)
          /\ worker_tasks' =
                AssignedTasks(IF in_plan > 0 THEN in_plan ELSE in_extraction,
                              num_workers)
    /\ intermediate_steps' = intermediate_steps \o <<"plan", "worker_tasks">>
    /\ apc' = "workers"
    /\ UNCHANGED <<architecture, max_iterations, num_workers, has_tools,
                   iterations, is_done, output, scratch_pad, worker_id,
                   aerror>>
    /\ UNCHANGED tool_log
    /\ UNCHANGED check_response
    /\ UNCHANGED <<step_responses, parse_text, parsed, ctxvars, runvars>>
    /\ UNCHANGED <<wvars, xvars>>
    /\ state' = StageState(Initializing(state), "plan")
    /\ UNCHANGED <<context_lists, worker_results, solver_prompt, ran_before,
                   current_path>>

\* _format_worker_results: the results under "Worker 1 Result:", "Worker 2
\* Result:", ..., in the order of the list
FormatWorkerResults(list) ==
    [i \in 1..Len(list) |-> [label |-> i, result |-> list[i].result]]

\* rewoo.py 67-77: the next worker reasons about its task; its result is
\* appended to worker_results (kept here with the number the worker was
\* asked under)
RewooWorker ==
    /\ architecture = "rewoo"
    /\ apc = "workers"
    /\ worker_id < worker_tasks
    /\ worker_id' = worker_id + 1
    /\ gateway_calls' = Append(gateway_calls, StageCall("worker"))
    /\ \E r \in Responses :
          worker_results' = Append(worker_results,
                                   [worker |-> worker_id + 1, result |-> r])
    /\ state' = UpdateState(state,
          [stage |-> <<"worker_", worker_id + 1>>,
           add_to_history |-> <<"worker_", worker_id + 1>>])
    /\ intermediate_steps' = Append(intermediate_steps, "worker_result")
    /\ UNCHANGED <<architecture, max_iterations, num_workers, has_tools, apc,
                   iterations, is_done, output, scratch_pad, worker_tasks,
                   aerror>>
    /\ UNCHANGED tool_log
    /\ UNCHANGED check_response
    /\ UNCHANGED <<step_responses, parse_text, parsed, ctxvars, runvars>>
    /\ UNCHANGED <<wvars, xvars>>
    /\ UNCHANGED <<context_lists, solver_prompt, ran_before, current_path>>

\* a solver that does not wait for the workers
RewooSolveEarly ==
    /\ architecture = "rewoo"
    /\ apc = "workers"
    /\ solver_prompt' = FormatWorkerResults(worker_results)
    /\ state' = UpdateState(StageState(state, "solution"),
          [stage |-> <<"completed">>,
           add_to_history |-> "plan, worker_results, solution"])
    /\ \E r \in Responses :
          /\ gateway_calls' = Append(gateway_calls, Call("solution", r))
          /\ output' = <<r>>
    /\ intermediate_steps' = Append(intermediate_steps, "solution")
    /\ apc' = "done"
    /\ UNCHANGED <<architecture, max_iterations, num_workers, has_tools,
                   iterations, is_done, scratch_pad, worker_tasks, worker_id,
                   aerror>>
    /\ UNCHANGED tool_log
    /\ UNCHANGED check_response
    /\ UNCHANGED <<step_responses, parse_text, parsed, ctxvars, runvars>>
    /\ UNCHANGED <<wvars, xvars>>
    /\ UNCHANGED <<context_lists, worker_results, ran_before, current_path>>

\* rewoo.py 81-112: the solver integrates the worker results; its
\* response is returned as it is
RewooSolve ==
    /\ architecture = "rewoo"
    /\ apc = "workers"
    /\ worker_id >= worker_tasks
    /\ solver_prompt' = FormatWorkerResults(worker_results)
    /\ state' = UpdateState(StageState(state, "solution"),
          [stage |-> <<"completed">>,
           add_to_history |-> "plan, worker_results, solution"])
    /\ \E r \in Responses :
          /\ gateway_calls' = Append(gateway_calls, Call("solution", r))
          /\ output' = <<r>>
    /\ intermediate_steps' = Append(intermediate_steps, "solution")
    /\ apc' = "done"
    /\ UNCHANGED <<architecture, max_iterations, num_workers, has_tools,
                   iterations, is_done, scratch_pad, worker_tasks, worker_id,
                   aerror>>
    /\ UNCHANGED tool_log
    /\ UNCHANGED check_response
    /\ UNCHANGED <<step_responses, parse_text, parsed, ctxvars, runvars>>
    /\ UNCHANGED <<wvars, xvars>>
    /\ UNCHANGED <<context_lists, worker_results, ran_before, current_path>>

\* the AgentResult execute returns
ExecuteResult ==
    [kind |-> "result", output |-> output,
     intermediate_steps |-> intermediate_steps,
     final_state |-> state,
     metadata |-> [architecture |-> architecture, iterations |-> iterations,
                   path_length |-> Len(current_path)]]

\* base.py 213-225: execute has returned, and run returns
RunReturns ==
    /\ apc = "done"
    /\ run_value' = RunReturn(ExecuteResult, format_output, verbose)
    /\ apc' = "returned"
    /\ UNCHANGED <<architecture, max_iterations, num_workers, has_tools,
                   iterations, is_done, output, gateway_calls,
                   intermediate_steps, scratch_pad, worker_tasks, worker_id,
                   tool_log, check_response, step_responses, parse_text,
                   parsed, ctxvars, verbose, format_output, aerror>>
    /\ UNCHANGED <<wvars, xvars, svars>>

AgentNext ==
    \/ ExecuteStartLoop
    \/ ReactIteration
    \/ OodaIteration
    \/ BdiIteration
    \/ RaiseInitializeScratchPad
    \/ RaiseExamples
    \/ RaiseThoughts
    \/ RaiseShouldUseTools
    \/ RaiseUseTools
    \/ RaiseObservations
    \/ RaiseWorkingMemory
    \/ RaiseCheckCompletion
    \/ ExhaustedReturn
    \/ CompletedReturn
    \/ LatCreateDecisionTree
    \/ LatIteration
    \/ LatReturn
    \/ RewooPlan
    \/ RewooWorker
    \/ RewooSolve
    \/ RunReturns

\* an agent about to run and an empty workflow
AgentSpecInit == AgentInit /\ WorkflowInit /\ ExtraIdle

SpecAgent == AgentSpecInit /\ [][AgentNext]_vars

(***************************************************************************)
(* The same agent run again: run is called on an agent whose earlier run   *)
(* has returned or raised, with the same arguments.                        *)
(***************************************************************************)
\* what a call of run starts from: a new AgentState, and the locals and
\* the context of execute not yet made
StartOfRun ==
    /\ state = NewAgentState
    /\ context_lists = EmptyMap
    /\ worker_results = <<>>
    /\ solver_prompt = <<>>
    /\ current_path = <<>>
    /\ iterations = 0
    /\ is_done = FALSE
    /\ output = <<>>
    /\ intermediate_steps = <<>>
    /\ scratch_pad = <<>>
    /\ worker_tasks = 0
    /\ worker_id = 0

\* the frame of a later call of run: the agent is the same, the locals of
\* the finished execute are gone, and the histories are those of the new
\* run
RunAgainFrame ==
    /\ apc \in {"returned", "raised"}
    /\ apc' = "start"
    /\ ran_before' = TRUE
    /\ context_lists' = EmptyMap
    /\ worker_results' = <<>>
    /\ solver_prompt' = <<>>
    /\ current_path' = <<>>
    /\ iterations' = 0
    /\ is_done' = FALSE
    /\ output' = <<>>
    /\ intermediate_steps' = <<>>
    /\ scratch_pad' = <<>>
    /\ worker_tasks' = 0
    /\ worker_id' = 0
    /\ gateway_calls' = <<>>
    /\ tool_log' = <<>>
    /\ check_response' = <<>>
    /\ step_responses' = <<>>
    /\ run_value' = <<>>
    /\ aerror' = "none"
    /\ UNCHANGED <<architecture, max_iterations, num_workers, has_tools,
                   parse_text, parsed, ctxvars, verbose, format_output>>
    /\ UNCHANGED <<wvars, xvars>>

\* a run that goes on from the state the earlier run left
RunAgainKeepsState ==
    /\ RunAgainFrame
    /\ UNCHANGED state

\* base.py 203-206: run is called again and resets the agent state
RunAgain ==
    /\ RunAgainFrame
    /\ state' = NewAgentState

RunsNext ==
    \/ AgentNext
    \/ RunAgain

\* a quiet agent, run with format_output=False: each run returns the
\* AgentResult itself
RunsInit ==
    /\ AgentSpecInit
    /\ ~verbose
    /\ ~format_output

SpecRuns == RunsInit /\ [][RunsNext]_vars

(***************************************************************************)
(* A run whose Model Gateway fails: some call of llm_client.generate       *)
(* raises.  No agent wraps such a call in a try statement.                 *)
(***************************************************************************)
\* a gateway call that can fail: the stages whose calls have returned
\* since the last step, the stage of the failing call, the entries the
\* trace has got since the last step, whether the pass was counted,
\* whether a tool was dispatched and the agent state at the failing call
Failure(calls, at, steps, passes, tools, st) ==
    [calls |-> calls, at |-> at, steps |-> steps, passes |-> passes,
     tools |-> tools, state |-> st]

\* ooda.py 62-92, bdi.py 60-86: the stage calls of one pass, each followed
\* by the append of its entry; the action of ooda and the execution of
\* bdi dispatch tools and ask nothing of the gateway; the completion
\* check comes last
PassFailures(stages, last_step) ==
    {Failure(SubSeq(stages, 1, k - 1), stages[k],
             SubSeq(stages, 1, k - 1), 1, FALSE, state) :
        k \in 1..Len(stages)}
    \cup {Failure(stages, "check_completion",
                  stages \o <<last_step>>, 1, TRUE, state)}

\* lat.py 65-98: the calls of one pass of the search loop
LatPassFailures ==
    LET selected == StageState(state, "node_selection")
        simulated == StageState(selected, "simulation")
        processed == StageState(simulated, "process_simulation")
    IN  {Failure(<<>>, "node_selection", <<>>, 0, FALSE, state),
         Failure(<<"node_selection">>, "need_simulation",
                 <<"node_selection">>, 0, FALSE, selected),
         Failure(<<"node_selection", "need_simulation">>, "simulation",
                 <<"node_selection">>, 0, FALSE, selected),
         Failure(<<"node_selection", "need_simulation", "simulation">>,
                 "process_simulation",
                 <<"node_selection", "simulation">>, 0, FALSE, simulated),
         Failure(<<"node_selection", "need_simulation">>,
                 "is_terminal_state",
                 <<"node_selection">>, 1, FALSE, selected),
         Failure(<<"node_selection", "need_simulation", "simulation",
                   "process_simulation">>, "is_terminal_state",
                 <<"node_selection", "simulation", "reflection">>,
                 1, FALSE, processed)}

\* the gateway calls the run can make next, each of which can fail
GatewayFailures ==
    LET partial == IF LoopExits /\ ~is_done
                   THEN {Failure(<<>>, "partial_answer", <<>>, 0, FALSE,
                                 state)}
                   ELSE {}
    IN  CASE architecture = "react" ->
               IF LoopContinues
               THEN {Failure(<<>>, "next_step", <<>>, 1, FALSE, state)}
               ELSE partial
          [] architecture = "ooda" ->
               IF LoopContinues
               THEN PassFailures(<<"observation", "orientation",
                                   "decision">>, "action")
               ELSE partial
          [] architecture = "bdi" ->
               IF LoopContinues
               THEN PassFailures(<<"beliefs", "desires", "intentions",
                                   "actions">>, "results")
               ELSE partial
          [] architecture = "raise" ->
               IF apc = "start"
               THEN {Failure(<<>>, "scratch_pad_init", <<>>, 0, FALSE,
                             Initializing(state))}
               ELSE IF LoopContinues
               THEN {Failure(<<>>, "examples", <<>>, 1, FALSE, state)}
               ELSE IF apc \in {"thoughts", "use_tools", "observations",
                                "working_memory", "check_completion"}
                       \/ (apc = "should_use_tools" /\ has_tools)
               THEN {Failure(<<>>, apc, <<>>, 0, FALSE, state)}
               ELSE partial
          [] architecture = "lat" ->
               IF apc = "start"
               THEN {Failure(<<>>, "decision_tree_creation", <<>>, 0, FALSE,
                             Initializing(state))}
               ELSE IF apc = "loop" /\ iterations < max_iterations
               THEN LatPassFailures
               ELSE IF apc \in {"loop", "after_loop"}
               THEN {Failure(<<>>, "best_path_selection", <<>>, 0, FALSE,
                             state),
                     Failure(<<"best_path_selection">>, "output_generation",
                             <<"best_path_selection">>, 0, FALSE,
                             StageState(state, "best_path_selection"))}
               ELSE {}
          [] architecture = "rewoo" ->
               IF apc = "start"
               THEN {Failure(<<>>, "plan", <<>>, 0, FALSE,
                             Initializing(state)),
                     Failure(<<"plan">>, "task_extraction", <<"plan">>, 0,
                             FALSE,
                             StageState(Initializing(state), "plan"))}
               ELSE IF apc = "workers" /\ worker_id < worker_tasks
               THEN {Failure(<<>>, "worker", <<>>, 0, FALSE, state)}
               ELSE IF apc = "workers"
               THEN {Failure(<<>>, "solution", <<>>, 0, FALSE, state)}
               ELSE {}

\* the list of the context an entry of the trace is also appended to
ListOf(step) ==
    CASE step = "observation" -> "observations"
      [] step = "orientation" -> "orientations"
      [] step = "decision" -> "decisions"
      [] step = "action" -> "actions"
      [] step = "actions" -> "selected_actions"
      [] step = "results" -> "actions_results"
      [] OTHER -> step

\* what a failing call leaves behind, next to where the exception goes
GatewayFails(f) ==
    /\ gateway_calls' = gateway_calls
          \o [i \in 1..Len(f.calls) |-> StageCall(f.calls[i])]
          \o <<Call(f.at, "raised")>>
    /\ intermediate_steps' = intermediate_steps \o f.steps
    /\ iterations' = iterations + f.passes
    /\ current_path' = IF architecture = "lat" /\ f.passes = 1
                       THEN Append(current_path, "node")
                       ELSE current_path
    /\ state' = f.state
    /\ context_lists' = AppendTo(context_lists,
          {ListOf(f.steps[i]) : i \in 1..Len(f.steps)})
    /\ IF f.tools
       THEN \E outcome \in ToolOutcomes(has_tools) :
               tool_log' = Append(tool_log,
                  Dispatch(outcome, ActionResult(architecture, outcome)))
       ELSE UNCHANGED tool_log
    /\ UNCHANGED <<architecture, max_iterations, num_workers, has_tools,
                   is_done, output, scratch_pad, worker_tasks, worker_id>>
    /\ UNCHANGED check_response
    /\ UNCHANGED <<step_responses, parse_text, parsed, ctxvars, runvars>>
    /\ UNCHANGED <<wvars, xvars>>
    /\ UNCHANGED <<worker_results, solver_prompt, ran_before>>

\* a controller that catches the failure and returns what it has
GatewayRaisesCaught ==
    /\ \E f \in GatewayFailures : GatewayFails(f)
    /\ apc' = "done"
    /\ UNCHANGED aerror

\* llm_client.generate raises inside execute: nothing catches it, execute
\* and run are left by the exception
GatewayRaises ==
    /\ \E f \in GatewayFailures : GatewayFails(f)
    /\ apc' = "raised"
    /\ aerror' = "GatewayError"

GatewayNext ==
    \/ AgentNext
    \/ GatewayRaises

\* a quiet agent about to run
GatewayInit ==
    /\ AgentSpecInit
    /\ ~verbose

SpecGateway == GatewayInit /\ [][GatewayNext]_vars

(***************************************************************************)
(* Claims about the agent loops.                                           *)
(***************************************************************************)
\* execute has ended: it returned a result or it raised
Finished == apc \in {"done", "raised"}

BudgetStrategies == {"react", "ooda", "bdi", "raise"}

PartialCalls ==
    Cardinality({i \in DOMAIN gateway_calls :
                    gateway_calls[i].stage = "partial_answer"})

LastCall == gateway_calls[Len(gateway_calls)]

\* the budget is 1 (rewoo has none) and no completion was signalled
BudgetOneNoCompletion ==
    /\ Finished
    /\ ~is_done
    /\ architecture = "rewoo" \/ max_iterations = 1

\* C8 (as stated): in react, ooda, bdi, raise and lat, while the gateway
\* and the tools return normally, execute never raises and the iteration
\* counter is at most the configured budget in every reachable state.
C8_Original ==
    architecture \in BudgetStrategies \cup {"lat"} =>
        /\ iterations <= max_iterations
        /\ apc # "raised"

\* C9 (as stated): in react, ooda, bdi and raise, a run whose iteration
\* count reached max_iterations without a completion signal ends without
\* an error, with exactly one partial-answer call, made last, and with the
\* notice followed by the response of that call as its output.
C9_Original ==
    /\ (architecture \in BudgetStrategies /\ apc # "done") =>
          PartialCalls = 0
    /\ (/\ architecture \in BudgetStrategies
        /\ Finished
        /\ iterations = max_iterations
        /\ ~is_done) =>
          /\ apc = "done"
          /\ PartialCalls = 1
          /\ LastCall.stage = "partial_answer"
          /\ output = <<Notice, LastCall.response>>

TerminationChecks ==
    Cardinality({i \in DOMAIN gateway_calls :
        gateway_calls[i].stage \in
            {"next_step", "check_completion", "is_terminal_state"}})

\* the loop stops at the first check that signals completion, so no check
\* has answered "not done" exactly when at most the signalling one was made
NoCheckSaidNo == TerminationChecks = (IF is_done THEN 1 ELSE 0)

\* C11 (as stated): under a gateway that signals completion on the first
\* termination check, a run with a budget of at least 1 ends by returning,
\* completed, after exactly one iteration and without a partial-answer
\* call (rewoo makes no termination check and is left out).
C11_Original ==
    (/\ architecture \in BudgetStrategies \cup {"lat"}
     /\ max_iterations >= 1
     /\ Finished
     /\ NoCheckSaidNo) =>
        /\ apc = "done"
        /\ is_done
        /\ iterations = 1
        /\ PartialCalls = 0

\* the texts that report a failed dispatch
ErrorTexts ==
    {"Error executing action", "Error executing tool",
     "Error: Tool not found", "Could not find tool"}

\* C12 (as stated): in react, ooda, bdi and raise every dispatch that
\* names a tool that was not supplied, or whose tool raises, is recorded
\* in the step trace as an error text, and the run goes on.
C12_Original ==
    architecture \in BudgetStrategies =>
        \A i \in DOMAIN tool_log :
            tool_log[i].outcome \in {"not_found", "raised"} =>
                tool_log[i].recorded \in ErrorTexts

(***************************************************************************)
(* _check_completion on its own: the gateway has answered the question of  *)
(* the check with some text, and the method turns it into its pair.        *)
(***************************************************************************)
CheckCompletionInit ==
    /\ WorkflowInit
    /\ ExtraIdle
    /\ architecture \in {"ooda", "bdi", "raise"}
    /\ max_iterations = 1
    /\ num_workers = 0
    /\ has_tools = FALSE
    /\ apc = "checking"
    /\ iterations = 1
    /\ is_done = FALSE
    /\ output = <<>>
    /\ gateway_calls = <<>>
    /\ intermediate_steps = <<>>
    /\ scratch_pad = <<>>
    /\ worker_tasks = 0
    /\ worker_id = 0
    /\ tool_log = <<>>
    /\ check_response \in SeqsUpTo(Pieces, MaxPieces)
    /\ step_responses = <<>>
    /\ parse_text = <<>>
    /\ parsed = <<>>
    /\ extra_context = NoContext
    /\ context = <<>>
    /\ verbose = FALSE
    /\ format_output = TRUE
    /\ run_value = <<>>
    /\ aerror = "none"

\* ooda.py 310-320, bdi.py 307-316, raise_agent.py 354-364
CheckCompletionReturns ==
    /\ apc = "checking"
    /\ gateway_calls' = Append(gateway_calls, StageCall("check_completion"))
    /\ is_done' = CheckCompletion(check_response).is_complete
    /\ output' = CheckCompletion(check_response).final_answer
    /\ apc' = "checked"
    /\ UNCHANGED <<architecture, max_iterations, num_workers, has_tools,
                   iterations, intermediate_steps, scratch_pad, worker_tasks,
                   worker_id, tool_log, check_response, aerror>>
    /\ UNCHANGED <<step_responses, parse_text, parsed, ctxvars, runvars>>
    /\ UNCHANGED <<wvars, xvars, svars>>

SpecCheckCompletion == CheckCompletionInit /\ [][CheckCompletionReturns]_vars

(***************************************************************************)
(* The parsers on their own: create_parser(architecture) and parse(text).  *)
(***************************************************************************)
ParseInit ==
    /\ WorkflowInit
    /\ ExtraIdle
    /\ architecture \in Strategies \cup {"other"}
    /\ max_iterations = 0
    /\ num_workers = 0
    /\ has_tools = FALSE
    /\ apc = "parsing"
    /\ iterations = 0
    /\ is_done = FALSE
    /\ output = <<>>
    /\ gateway_calls = <<>>
    /\ intermediate_steps = <<>>
    /\ scratch_pad = <<>>
    /\ worker_tasks = 0
    /\ worker_id = 0
    /\ tool_log = <<>>
    /\ check_response = <<>>
    /\ step_responses = <<>>
    /\ parse_text \in SeqsUpTo(Tokens(architecture), MaxTokens)
    /\ parsed = <<>>
    /\ extra_context = NoContext
    /\ context = <<>>
    /\ verbose = FALSE
    /\ format_output = TRUE
    /\ run_value = <<>>
    /\ aerror = "none"

\* create_parser, given a tag that is no key of its table
CreateParserRaises ==
    /\ apc = "parsing"
    /\ architecture \notin Strategies
    /\ apc' = "raised"
    /\ aerror' = "ValueError"
    /\ UNCHANGED <<architecture, max_iterations, num_workers, has_tools,
                   iterations, is_done, output, gateway_calls,
                   intermediate_steps, scratch_pad, worker_tasks, worker_id,
                   tool_log, check_response, step_responses, parse_text,
                   parsed, ctxvars, runvars>>
    /\ UNCHANGED <<wvars, xvars, svars>>

\* parser.parse(text) returns
ParseReturns ==
    /\ apc = "parsing"
    /\ architecture \in Strategies
    /\ parsed' = Parse(architecture, parse_text)
    /\ apc' = "parsed"
    /\ UNCHANGED <<architecture, max_iterations, num_workers, has_tools,
                   iterations, is_done, output, gateway_calls,
                   intermediate_steps, scratch_pad, worker_tasks, worker_id,
                   tool_log, check_response, step_responses, parse_text,
                   aerror, ctxvars, runvars>>
    /\ UNCHANGED <<wvars, xvars, svars>>

ParseNext ==
    \/ CreateParserRaises
    \/ ParseReturns

SpecParse == ParseInit /\ [][ParseNext]_vars

(***************************************************************************)
(* The grouping parsers on texts with repeated labels: a text is a row of  *)
(* labelled pieces, some of them without content.                          *)
(***************************************************************************)
MaxRepeats == 2

\* the grammars whose parser collects groups
GroupedStrategies == {"react", "ooda", "bdi", "lat"}

\* the labelled pieces of the texts of a grammar: a label with a word, in
\* react also a label alone, in lat a "Branches:" with one option and its
\* evaluation or with a word only
GroupPieces(arch) ==
    LET worded == {<<Labels(arch)[k], "x">> : k \in DOMAIN Labels(arch)}
    IN  CASE arch = "react" ->
                worded \cup {<<Labels(arch)[k]>> : k \in DOMAIN Labels(arch)}
          [] arch = "lat" ->
                worded \cup {<<"Branches:", OptionLabel, "x",
                               EvaluationLabel, "x">>}
          [] OTHER -> worded

RECURSIVE Flatten(_)
Flatten(pieces) ==
    IF pieces = <<>> THEN <<>> ELSE Head(pieces) \o Flatten(Tail(pieces))

\* the texts of up to one piece per field and MaxRepeats more
GroupTexts(arch) ==
    {Flatten(ps) : ps \in SeqsUpTo(GroupPieces(arch),
                                    Len(Fields(arch)) + MaxRepeats)}

GroupsInit ==
    /\ WorkflowInit
    /\ ExtraIdle
    /\ architecture \in GroupedStrategies
    /\ max_iterations = 0
    /\ num_workers = 0
    /\ has_tools = FALSE
    /\ apc = "parsing"
    /\ iterations = 0
    /\ is_done = FALSE
    /\ output = <<>>
    /\ gateway_calls = <<>>
    /\ intermediate_steps = <<>>
    /\ scratch_pad = <<>>
    /\ worker_tasks = 0
    /\ worker_id = 0
    /\ tool_log = <<>>
    /\ check_response = <<>>
    /\ step_responses = <<>>
    /\ parse_text \in GroupTexts(architecture)
    /\ parsed = <<>>
    /\ extra_context = NoContext
    /\ context = <<>>
    /\ verbose = FALSE
    /\ format_output = TRUE
    /\ run_value = <<>>
    /\ aerror = "none"

SpecGroups == GroupsInit /\ [][ParseReturns]_vars

(***************************************************************************)
(* Context initialisation on its own.                                      *)
(***************************************************************************)
ContextInit ==
    /\ WorkflowInit
    /\ ExtraIdle
    /\ architecture \in Strategies
    /\ max_iterations = 0
    /\ num_workers = 0
    /\ has_tools = FALSE
    /\ apc = "initializing"
    /\ iterations = 0
    /\ is_done = FALSE
    /\ output = <<>>
    /\ gateway_calls = <<>>
    /\ intermediate_steps = <<>>
    /\ scratch_pad = <<>>
    /\ worker_tasks = 0
    /\ worker_id = 0
    /\ tool_log = <<>>
    /\ check_response = <<>>
    /\ step_responses = <<>>
    /\ parse_text = <<>>
    /\ parsed = <<>>
    /\ extra_context \in ExtraContexts
    /\ context = <<>>
    /\ verbose = FALSE
    /\ format_output = TRUE
    /\ run_value = <<>>
    /\ aerror = "none"

\* the method returns the context
InitializeContextReturns ==
    /\ apc = "initializing"
    /\ context' = InitializeContext(architecture, extra_context)
    /\ apc' = "initialized"
    /\ UNCHANGED <<architecture, max_iterations, num_workers, has_tools,
                   iterations, is_done, output, gateway_calls,
                   intermediate_steps, scratch_pad, worker_tasks, worker_id,
                   tool_log, check_response, step_responses, parse_text,
                   parsed, extra_context, runvars, aerror>>
    /\ UNCHANGED <<wvars, xvars, svars>>

SpecContext == ContextInit /\ [][InitializeContextReturns]_vars

(***************************************************************************)
(* The field extraction of the stage calls on its own.                     *)
(***************************************************************************)
ExtractInit ==
    /\ WorkflowInit
    /\ architecture \in ExtractStrategies
    /\ max_iterations = 0
    /\ num_workers = 0
    /\ has_tools = FALSE
    /\ apc = "extracting"
    /\ iterations = 0
    /\ is_done = FALSE
    /\ output = <<>>
    /\ gateway_calls = <<>>
    /\ intermediate_steps = <<>>
    /\ scratch_pad = <<>>
    /\ worker_tasks = 0
    /\ worker_id = 0
    /\ tool_log = <<>>
    /\ check_response = <<>>
    /\ step_responses = <<>>
    /\ parse_text \in ExtractTexts(architecture)
    /\ parsed = <<>>
    /\ extra_context = NoContext
    /\ context = <<>>
    /\ verbose = FALSE
    /\ format_output = TRUE
    /\ run_value = <<>>
    /\ aerror = "none"
    /\ section_type \in ExtractFields(architecture)
    /\ FactoryIdle
    /\ RegistryIdle
    /\ RunIdle
    /\ MemoryIdle

\* the method returns the value of the field
ExtractReturns ==
    /\ apc = "extracting"
    /\ parsed' = Extract(architecture, parse_text, section_type)
    /\ apc' = "extracted"
    /\ UNCHANGED <<architecture, max_iterations, num_workers, has_tools,
                   iterations, is_done, output, gateway_calls,
                   intermediate_steps, scratch_pad, worker_tasks, worker_id,
                   tool_log, check_response, step_responses, parse_text,
                   aerror, ctxvars, runvars>>
    /\ UNCHANGED <<wvars, xvars, svars>>

SpecExtract == ExtractInit /\ [][ExtractReturns]_vars

(***************************************************************************)
(* The factory on its own: BaseAgent.create(architecture, **kwargs).       *)
(***************************************************************************)
CreateInit ==
    /\ WorkflowInit
    /\ architecture = "none"
    /\ max_iterations = 0
    /\ num_workers = 0
    /\ has_tools = FALSE
    /\ apc = "creating"
    /\ iterations = 0
    /\ is_done = FALSE
    /\ output = <<>>
    /\ gateway_calls = <<>>
    /\ intermediate_steps = <<>>
    /\ scratch_pad = <<>>
    /\ worker_tasks = 0
    /\ worker_id = 0
    /\ tool_log = <<>>
    /\ check_response = <<>>
    /\ step_responses = <<>>
    /\ parse_text = <<>>
    /\ parsed = <<>>
    /\ extra_context = NoContext
    /\ context = <<>>
    /\ verbose \in BOOLEAN
    /\ format_output = TRUE
    /\ run_value = <<>>
    /\ aerror = "none"
    /\ section_type = "none"
    /\ create_arg \in CreateArgs
    /\ kwargs \in SUBSET OptionNames
    /\ llm \in LlmArgs
    /\ agent = NoAgent
    /\ factory_trace = <<>>
    /\ RegistryIdle
    /\ RunIdle
    /\ MemoryIdle

\* what no step of the factory changes
CreateFrame ==
    /\ UNCHANGED <<max_iterations, num_workers, has_tools, iterations,
                   is_done, output, gateway_calls, intermediate_steps,
                   scratch_pad, worker_tasks, worker_id, tool_log,
                   check_response, step_responses, parse_text, parsed,
                   ctxvars, runvars>>
    /\ UNCHANGED <<section_type, create_arg, kwargs, llm, tvars, mvars, svars>>
    /\ UNCHANGED wvars

\* a create that constructs the agent before it looks the name up
CreateRaisesLate ==
    /\ apc = "creating"
    /\ LowerTag(create_arg) \notin ArchitectureMap
    /\ factory_trace' = InitTrace(verbose) \o <<"client", "lookup">>
    /\ aerror' = "ValueError: Unknown agent architecture"
    /\ apc' = "raised"
    /\ UNCHANGED <<architecture, agent>>
    /\ CreateFrame

\* a lookup that falls back to react for a name it does not know
CreateFallsBack ==
    /\ apc = "creating"
    /\ LowerTag(create_arg) \notin ArchitectureMap
    /\ factory_trace' = <<"lookup", "lookup">> \o InitTrace(verbose)
                            \o <<"client">>
    /\ agent' = Construct("react", kwargs, verbose)
    /\ architecture' = "react"
    /\ apc' = "created"
    /\ UNCHANGED aerror
    /\ CreateFrame

\* base.py 182-183: the name is no key of architecture_map
CreateRaises ==
    /\ apc = "creating"
    /\ LowerTag(create_arg) \notin ArchitectureMap
    /\ factory_trace' = <<"lookup">>
    /\ aerror' = "ValueError: Unknown agent architecture"
    /\ apc' = "raised"
    /\ UNCHANGED <<architecture, agent>>
    /\ CreateFrame

\* base.py 185-186 and the constructor, whose create_llm raises: the
\* base constructor has run, and has logged when verbose
ConstructorRaises ==
    /\ apc = "creating"
    /\ LowerTag(create_arg) \in ArchitectureMap
    /\ \E outcome \in CreateLlmOutcomes(llm) \ {"client"} :
          aerror' = outcome
    /\ factory_trace' = <<"lookup">> \o InitTrace(verbose)
    /\ apc' = "raised"
    /\ UNCHANGED <<architecture, agent>>
    /\ CreateFrame

\* a constructor that takes only the keyword arguments it knows
CreateReturnsKnownOnly ==
    /\ apc = "creating"
    /\ LowerTag(create_arg) \in ArchitectureMap
    /\ "client" \in CreateLlmOutcomes(llm)
    /\ IF kwargs \subseteq Recognised(LowerTag(create_arg))
       THEN /\ factory_trace' = <<"lookup">> \o InitTrace(verbose)
                                    \o <<"client">>
            /\ agent' = Construct(LowerTag(create_arg), kwargs, verbose)
            /\ architecture' = LowerTag(create_arg)
            /\ apc' = "created"
            /\ UNCHANGED aerror
       ELSE /\ factory_trace' = <<"lookup">>
            /\ aerror' = "TypeError"
            /\ apc' = "raised"
            /\ UNCHANGED <<architecture, agent>>
    /\ CreateFrame

\* base.py 185-186 and the constructor: the agent is returned
CreateReturns ==
    /\ apc = "creating"
    /\ LowerTag(create_arg) \in ArchitectureMap
    /\ "client" \in CreateLlmOutcomes(llm)
    /\ factory_trace' = <<"lookup">> \o InitTrace(verbose) \o <<"client">>
    /\ agent' = Construct(LowerTag(create_arg), kwargs, verbose)
    /\ architecture' = LowerTag(create_arg)
    /\ apc' = "created"
    /\ UNCHANGED aerror
    /\ CreateFrame

CreateNext ==
    \/ CreateRaises
    \/ ConstructorRaises
    \/ CreateReturns

SpecCreate == CreateInit /\ [][CreateNext]_vars

(***************************************************************************)
(* The tool registry on its own.                                           *)
(***************************************************************************)
RegistryInit ==
    /\ WorkflowInit
    /\ AgentIdle
    /\ section_type = "none"
    /\ FactoryIdle
    /\ RegistryIdle
    /\ RunIdle
    /\ MemoryIdle

\* a tool is constructed and registered
RegisterReturns ==
    /\ Len(registered) < MaxRegistrations
    /\ \E name \in ToolNames :
          LET tool == Tool(name, Len(registered) + 1)
          IN  /\ registry' = Register(registry, tool)
              /\ registered' = Append(registered, tool)
    /\ UNCHANGED got
    /\ UNCHANGED <<wvars, avars, section_type, fvars, mvars, svars>>

\* get(name) returns; the name may be one that was never registered
GetReturns ==
    /\ \E name \in ToolNames :
          got' = [op |-> "get", name |-> name, result |-> Get(registry, name),
                  after |-> Len(registered)]
    /\ UNCHANGED <<registry, registered>>
    /\ UNCHANGED <<wvars, avars, section_type, fvars, mvars, svars>>

\* list() returns
ListReturns ==
    /\ got' = [op |-> "list", result |-> List(registry),
               after |-> Len(registered)]
    /\ UNCHANGED <<registry, registered>>
    /\ UNCHANGED <<wvars, avars, section_type, fvars, mvars, svars>>

RegistryNext ==
    \/ RegisterReturns
    \/ GetReturns
    \/ ListReturns

SpecRegistry == RegistryInit /\ [][RegistryNext]_vars

(***************************************************************************)
(* Tool dispatch on its own: the constructor of a strategy registers the   *)
(* supplied tools one after the other and keeps the list as self.tools;    *)
(* _execute_action looks the name of the action up in that list.           *)
(***************************************************************************)
\* the names an action may ask for
ActionNames == ToolNames \cup {"SEARCH"}

\* str.lower() on the names of the model
LowerName(name) == IF name \in {"Search", "SEARCH"} THEN "search" ELSE name

\* the places of the list whose tool has the name, case ignored
PlacesIgnoringCase(tools, name) ==
    {i \in DOMAIN tools : LowerName(tools[i].name) = LowerName(name)}

\* a lookup that takes the last tool of the name, as a dict built from the
\* list under lower-cased names would
FindToolLastWins(tools, name) ==
    IF PlacesIgnoringCase(tools, name) = {} THEN None
    ELSE tools[CHOOSE i \in PlacesIgnoringCase(tools, name) :
                  \A j \in PlacesIgnoringCase(tools, name) : j <= i]

\* next((t for t in self.tools if t.name.lower() == tool_name.lower()),
\* None)
FindTool(tools, name) ==
    IF PlacesIgnoringCase(tools, name) = {} THEN None
    ELSE tools[Min(PlacesIgnoringCase(tools, name))]

\* _execute_action has looked up the tool of an action; the tools supplied
\* are the ones registered so far, in their order
DispatchReturns ==
    /\ \E name \in ActionNames :
          got' = [op |-> "dispatch", name |-> name,
                  result |-> FindTool(registered, name),
                  after |-> Len(registered)]
    /\ UNCHANGED <<registry, registered>>
    /\ UNCHANGED <<wvars, avars, section_type, fvars, mvars, svars>>

DispatchNext ==
    \/ RegisterReturns
    \/ DispatchReturns

SpecDispatch == RegistryInit /\ [][DispatchNext]_vars

(***************************************************************************)
(* ConversationBufferMemory on its own: a buffer is made with some         *)
(* max_messages and messages are added to it.                              *)
(***************************************************************************)
MaxBuffer == 2
MaxAdds == 4

\* the roles of the messages
Roles == {"user", "agent", "system"}

\* list[start:] as Python computes it: a negative start counts from the
\* end, and a start outside the list is clipped to it
SliceFrom(list, start) ==
    LET n == Len(list)
        begin == IF start < 0
                 THEN (IF n + start < 0 THEN 0 ELSE n + start)
                 ELSE (IF start > n THEN n ELSE start)
    IN  SubSeq(list, begin + 1, n)

\* memory.py 181-185: the message is appended and the list is trimmed
AddMessageTo(list, limit, message) ==
    LET appended == Append(list, message)
    IN  IF Len(appended) > limit
        THEN SliceFrom(appended, 0 - limit)
        ELSE appended

\* ConversationBufferMemory(max_messages)
MemoryInit ==
    /\ WorkflowInit
    /\ AgentIdle
    /\ section_type = "none"
    /\ FactoryIdle
    /\ RegistryIdle
    /\ RunIdle
    /\ max_messages \in 0..MaxBuffer
    /\ messages = <<>>
    /\ added = <<>>

\* add_message(role, content): a message is named after its role and its
\* place among the messages added
AddMessage ==
    /\ Len(added) < MaxAdds
    /\ \E role \in Roles :
          LET message == [role |-> role, content |-> Len(added) + 1]
          IN  /\ messages' = AddMessageTo(messages, max_messages, message)
              /\ added' = Append(added, message)
    /\ UNCHANGED max_messages
    /\ UNCHANGED <<wvars, avars, section_type, fvars, tvars, svars>>

SpecMemory == MemoryInit /\ [][AddMessage]_vars

(***************************************************************************)
(* Claims about the completion check.                                      *)
(***************************************************************************)
CheckStrategies == {"ooda", "bdi", "raise"}

ChecksDone ==
    Cardinality({i \in DOMAIN gateway_calls :
                    gateway_calls[i].stage = "check_completion"})

\* "yes" or "complete", in any case, lies wholly within the first 100
\* characters of the text
SignalsCompletion(text) ==
    \E i \in DOMAIN text :
        /\ Lower(text[i]) \in {"yes", "complete"}
        /\ TextLen(SubSeq(text, 1, i)) <= 100

\* what the latest check reported is what its response signals, and a run
\* that returned without completion had used up its budget
C13_CheckDecides ==
    (architecture \in CheckStrategies /\ ChecksDone >= 1) =>
        /\ is_done <=> SignalsCompletion(check_response)
        /\ (apc = "done" /\ ~is_done) => iterations >= max_iterations

\* once a check has reported completion no further iteration is made
C13_StopsOnCompletion ==
    (architecture \in CheckStrategies /\ is_done) =>
        (iterations' = iterations /\ is_done' /\ ChecksDone' = ChecksDone)

\* C13: in ooda, bdi and raise the completion check reports completion if
\* and only if "yes" or "complete" occurs, in any case, within the first
\* 100 characters of its response (an occurrence entirely or partly beyond
\* character 100 does not count), and the loop stops after an iteration
\* exactly when the check reported completion: after a completing check no
\* further iteration is made, and after any other check the loop goes on
\* while the budget lasts.
C13_CompletionWindow == [](C13_CheckDecides) /\ [][C13_StopsOnCompletion]_vars

\* raise is in its second iteration: the first check's response had "YES"
\* on characters 99 to 101 and the loop went on
C13_Witness ==
    /\ architecture = "raise"
    /\ ChecksDone = 1
    /\ iterations = 2
    /\ check_response = <<" ", "f97", "YES", "r1">>
    /\ ~is_done

\* the text without the white space at its two ends
Trimmed(text) ==
    LET inked == {i \in DOMAIN text : text[i] # " "}
    IN  IF inked = {} THEN <<>>
        ELSE SubSeq(text, CHOOSE i \in inked : \A j \in inked : i <= j,
                          CHOOSE i \in inked : \A j \in inked : i >= j)

\* the places of the text that read "final answer" in some case, with or
\* without a colon
Markers(text) ==
    {i \in DOMAIN text :
        text[i] \in {"final answer", "Final Answer:"}}

AfterFirstMarker(text) ==
    LET first == CHOOSE i \in Markers(text) : \A j \in Markers(text) : i <= j
    IN  SubSeq(text, first + 1, Len(text))

\* C14: when the completion check signals completion, the output is the
\* trimmed part of the check response after the first "final answer" marker
\* (any case, colon optional) if the response has the marker anywhere, and
\* the whole trimmed response if it has none.
C14_OutputAfterMarker ==
    (apc = "checked" /\ is_done) =>
        output = (IF Markers(check_response) # {}
                  THEN Trimmed(AfterFirstMarker(check_response))
                  ELSE Trimmed(check_response))

\* a completing response with two markers: the output starts after the
\* first and keeps the second
C14_Witness ==
    /\ apc = "checked"
    /\ is_done
    /\ check_response = <<"complete", "final answer", "Final Answer:">>
    /\ output = <<"Final Answer:">>

(***************************************************************************)
(* Claims about react and the parsers.                                     *)
(***************************************************************************)
\* "Thought: compute\nAction: none\nObservation: n/a"
ScenarioCall1 ==
    <<"Thought:", " ", "compute", " ", "Action:", " ", "none", " ",
      "Observation:", " ", "n/a">>

\* "Final Answer: 4"
ScenarioCall2 == <<"Final Answer:", " ", "4">>

\* the gateway answered the calls made so far, two at most, as the
\* scenario says
ScenarioRun ==
    /\ architecture = "react"
    /\ max_iterations = 2
    /\ Len(step_responses) >= 1
    /\ step_responses[1] = ScenarioCall1
    /\ Len(step_responses) >= 2 => step_responses[2] = ScenarioCall2

\* C15: react with budget 2, the gateway answering call 1 with
\* "Thought: compute\nAction: none\nObservation: n/a" and call 2 with
\* "Final Answer: 4", returns completed with output "4", a step trace of
\* at least two entries, exactly two gateway calls and no partial-answer
\* call.
C15_ScenarioCompletes ==
    (ScenarioRun /\ Finished) =>
        /\ apc = "done"
        /\ is_done
        /\ output = <<"4">>
        /\ Len(intermediate_steps) >= 2
        /\ Len(gateway_calls) = 2
        /\ PartialCalls = 0

\* the scenario has run to its end
C15_Witness ==
    /\ ScenarioRun
    /\ Finished
    /\ step_responses = <<ScenarioCall1, ScenarioCall2>>
    /\ intermediate_steps = <<"thought", "action">>

\* the labels the patterns of a grammar start with
TopLabels(arch) ==
    {FinalAnswerLabel} \cup
    CASE arch = "react" -> {"Thought:", "Action:", "Observation:"}
      [] arch = "ooda" ->
            {"Observation:", "Orientation:", "Decision:", "Action:"}
      [] arch = "bdi" -> {"Beliefs:", "Desires:", "Intentions:", "Execution:"}
      [] arch = "lat" -> {"Problem:", "Branches:", "Selection:"}
      [] arch = "raise" ->
            {"Task Analysis:", "Relevant Examples:", "Scratch Pad:"}
      [] arch = "rewoo" -> {"Problem Analysis:", "Reasoning:", "Conclusion:"}

NoLabelMatches ==
    \A i \in DOMAIN parse_text : parse_text[i] \notin TopLabels(architecture)

\* every grouped field of the record is empty
GroupedFieldsEmpty ==
    CASE architecture \in {"react", "ooda", "bdi", "lat"} ->
            parsed.groups = <<>>
      [] architecture = "raise" ->
            /\ parsed.task_analysis = <<>>
            /\ parsed.relevant_examples = <<>>
            /\ parsed.scratch_pad.raw = <<>>
            /\ parsed.scratch_pad.steps = <<>>
      [] architecture = "rewoo" ->
            /\ parsed.problem_analysis = <<>>
            /\ parsed.reasoning.raw = <<>>
            /\ parsed.reasoning.steps = <<>>
            /\ parsed.conclusion = <<>>

\* C19: for each of the six grammars and any text, the empty text and
\* text without a label included, the parser does not raise and returns a
\* record whose raw_response is the text; when no label matches, the
\* grouped fields and the final answer are empty.
C19_ParseTotal ==
    architecture \in Strategies =>
        /\ apc # "raised"
        /\ aerror = "none"
        /\ apc = "parsed" =>
              /\ parsed.raw_response = parse_text
              /\ NoLabelMatches =>
                    (GroupedFieldsEmpty /\ parsed.final_answer = <<>>)

\* a text of words and white space has been parsed
C19_Witness ==
    /\ apc = "parsed"
    /\ architecture = "react"
    /\ parse_text = <<"x", " ", "x">>
    /\ parsed.raw_response = <<"x", " ", "x">>
    /\ parsed.groups = <<>>
    /\ parsed.final_answer = <<>>

\* C20 (as stated): a group of the react parser holds an action only if
\* its thought was matched earlier in the text, and an observation only if
\* its action was; an "Action:" with no "Thought:" before it gets into no
\* group.
C20_Original ==
    (apc = "parsed" /\ architecture = "react") =>
        \A g \in DOMAIN parsed.groups :
            LET group == parsed.groups[g]
            IN  /\ "action" \in DOMAIN group =>
                      group["thought"].at < group["action"].at
                /\ "observation" \in DOMAIN group =>
                      group["action"].at < group["observation"].at

(***************************************************************************)
(* Claims about the initial context.                                       *)
(***************************************************************************)
\* task, the history lists, available_tools and tool_descriptions, as far
\* as the strategy sets them
ListedKeys(arch) == ControllerKeys(arch) \ {"context_info"}

KeepsControllerValues ==
    \A k \in ListedKeys(architecture) :
        k \in DOMAIN context /\ context[k] = ControllerValue(k)

AddsCallerKeys ==
    extra_context.kind = "dict" =>
        \A k \in (DOMAIN extra_context.items) \ ControllerKeys(architecture) :
            k \in DOMAIN context /\ context[k] = extra_context.items[k]

\* C16 (as stated): for every strategy the initial context keeps the
\* controller's value of every key the controller sets, and holds every
\* other key of the extra context with the caller's value.
C16_Original ==
    apc = "initialized" => (KeepsControllerValues /\ AddsCallerKeys)

\* C16 (amended): that holds for react, ooda, bdi, raise and lat.  rewoo
\* keeps its own task and exemplars and puts the caller's mapping, whole,
\* under the key context_info (an empty mapping without one): no key of
\* the caller becomes a key of the context.  An extra context that is no
\* mapping changes nothing.
C16_MergeKeepsControllerKeys ==
    apc = "initialized" =>
        /\ KeepsControllerValues
        /\ architecture # "rewoo" =>
              /\ AddsCallerKeys
              /\ extra_context.kind # "dict" =>
                    DOMAIN context = ControllerKeys(architecture)
        /\ architecture = "rewoo" =>
              /\ DOMAIN context = ControllerKeys("rewoo")
              /\ context["context_info"] =
                    (IF extra_context.kind = "dict"
                     THEN extra_context.items ELSE EmptyMap)

\* react was given a context with its own key task and the new key notes
C16_Witness ==
    /\ apc = "initialized"
    /\ architecture = "react"
    /\ extra_context.kind = "dict"
    /\ DOMAIN extra_context.items = {"task", "notes"}
    /\ context["task"] = ControllerValue("task")
    /\ context["notes"] = CallerValue("notes")

(***************************************************************************)
(* Claims about run.                                                       *)
(***************************************************************************)
\* C17 (as stated): the agent that differs from this one only in the
\* verbose flag, given the same task and the same responses, makes the
\* same calls (no step of execute reads the flag) and returns the same
\* value from run.
C17_Original ==
    apc = "returned" =>
        run_value = RunReturn(ExecuteResult, format_output, ~verbose)

ExtractGroups == Parse(architecture, parse_text).groups
GroupsHaving ==
    {i \in DOMAIN ExtractGroups : section_type \in DOMAIN ExtractGroups[i]}

\* what the fallback pattern of the field captures, empty when the field
\* has no pattern or the pattern does not match
FallbackValue ==
    IF section_type \in DOMAIN FallbackLabel(architecture)
    THEN SearchFirst(parse_text, FallbackLabel(architecture)[section_type],
                     FallbackTerminators(architecture)[section_type])
    ELSE <<>>

\* C21 as stated: the extraction always returns a non-empty value for the
\* queried field.
C21_Original ==
    apc = "extracted" => parsed # <<>>

\* C21, amended: the extraction returns the value of the field in the
\* first parsed group that has it; without such a group, what the fallback
\* pattern of the field captures when that is non-empty; otherwise the
\* whole response.  The value is empty exactly when the response is empty.
C21_ExtractTiers ==
    apc = "extracted" =>
        /\ GroupsHaving # {} =>
              parsed = ExtractGroups[Min(GroupsHaving)][section_type].content
        /\ GroupsHaving = {} /\ FallbackValue # <<>> => parsed = FallbackValue
        /\ GroupsHaving = {} /\ FallbackValue = <<>> => parsed = parse_text
        /\ (parsed = <<>>) <=> (parse_text = <<>>)

\* a response in which the label of the field is followed by nothing but
\* white space: no group, an empty fallback match, the response is returned
C21_Witness ==
    /\ apc = "extracted"
    /\ section_type \in DOMAIN FallbackLabel(architecture)
    /\ FallbackLabel(architecture)[section_type] \in Range(parse_text)
    /\ GroupsHaving = {}
    /\ FallbackValue = <<>>
    /\ parsed = parse_text
    /\ parsed # <<>>

(***************************************************************************)
(* Claims about the factory.                                               *)
(***************************************************************************)
\* create has returned or raised
Created == create_arg \in CreateArgs /\ apc # "creating"

UnknownName == LowerTag(create_arg) \notin Strategies

\* the keyword arguments the chosen strategy does not read
Unrecognised == kwargs \ Recognised(LowerTag(create_arg))

\* how often an event is in the trace of the factory
Occurrences(event) ==
    Cardinality({i \in DOMAIN factory_trace : factory_trace[i] = event})

\* C22: create with a name that is, in lower case, none of the six
\* strategies raises the configuration error with nothing done but the
\* lookup: no agent is constructed, no line is logged, no gateway client
\* is created and the gateway is not called; a name that is one of the six
\* in another case is not refused.
C22_UnknownNameRaisesFirst ==
    Created =>
        /\ UnknownName =>
              /\ apc = "raised"
              /\ aerror = "ValueError: Unknown agent architecture"
              /\ agent = NoAgent
              /\ factory_trace = <<"lookup">>
              /\ gateway_calls = <<>>
        /\ ~UnknownName => aerror # "ValueError: Unknown agent architecture"

\* an unknown name given to a create whose constructor would have logged
C22_Witness ==
    /\ Created
    /\ create_arg = "reflexion"
    /\ verbose
    /\ apc = "raised"

\* C23: a keyword argument the strategy does not read is no error: create
\* raises only what create_llm raises, and the agent it returns is the one
\* the same call without those arguments returns.
C23_UnknownOptionsIgnored ==
    Created /\ ~UnknownName =>
        /\ apc = "raised" => aerror \in CreateLlmOutcomes(llm)
        /\ apc = "created" =>
              agent = Construct(LowerTag(create_arg), kwargs \ Unrecognised,
                                verbose)
        /\ "client" \in CreateLlmOutcomes(llm) /\ apc = "raised" =>
              aerror # "TypeError"

\* an agent constructed from arguments that hold an unknown option and an
\* option of another strategy
C23_Witness ==
    /\ Created
    /\ apc = "created"
    /\ "colour" \in kwargs
    /\ Cardinality(Unrecognised) >= 2
    /\ agent.class = LowerTag(create_arg)

C24_RaisedAtLookup ==
    Created =>
        /\ UnknownName =>
              /\ apc = "raised"
              /\ aerror = "ValueError: Unknown agent architecture"
              /\ Occurrences("lookup") = 1
              /\ Occurrences("__init__") = 0
        /\ ~UnknownName /\ apc = "raised" =>
              aerror \in CreateLlmOutcomes(llm) \ {"client"}
        /\ ~UnknownName /\ "client" \in CreateLlmOutcomes(llm) =>
              \/ apc = "created"
              \/ aerror \in CreateLlmOutcomes(llm) \ {"client"}

\* the step part of C24: nothing is done after an error was raised
C24_NoStepAfterRaise ==
    apc = "raised" => UNCHANGED vars

Before == SubSeq(registered, 1, got.after)

\* the registrations under a name among them
Under(name) == {i \in DOMAIN Before : Before[i].name = name}

\* the latest of a non-empty set of registrations
Latest(S) == CHOOSE i \in S : \A j \in S : j <= i

\* C25: get(name) returns the tool most recently registered under exactly
\* that name and nothing for a name never registered; list returns exactly
\* one tool per distinct registered name, the latest under it.
C25_LastRegistrationWins ==
    /\ got.op = "get" =>
          got.result = IF Under(got.name) = {} THEN None
                       ELSE Before[Latest(Under(got.name))]
    /\ got.op = "list" =>
          /\ \A i, j \in DOMAIN got.result :
                got.result[i].name = got.result[j].name => i = j
          /\ {got.result[i] : i \in DOMAIN got.result} =
                {Before[Latest(Under(name))] :
                    name \in {n \in ToolNames : Under(n) # {}}}

\* a get of a name registered twice, next to a name that differs from it
\* only in case
C25_Witness ==
    /\ got.op = "get"
    /\ Cardinality(Under(got.name)) >= 2
    /\ got.result = Before[Latest(Under(got.name))]
    /\ \E i \in DOMAIN Before :
          Before[i].name # got.name
              /\ {Before[i].name, got.name} = {"search", "Search"}

(***************************************************************************)
(* Claims about what an agent keeps between runs.                          *)
(***************************************************************************)
ListStrategies == {"react", "ooda", "bdi"}

\* the number of entries of a type in the step trace of this run
StepsOfType(type) ==
    Cardinality({i \in 1..Len(intermediate_steps) :
                    intermediate_steps[i] = type})

\* the context lists hold what this run has appended, and nothing else
ListsOfThisRun ==
    CASE architecture = "react" ->
            /\ context_lists["thoughts"] = StepsOfType("thought")
            /\ context_lists["actions"] = StepsOfType("action")
            /\ context_lists["observations"] = StepsOfType("action")
      [] architecture = "ooda" ->
            \A k \in DOMAIN context_lists : context_lists[k] = iterations
      [] architecture = "bdi" ->
            \A k \in DOMAIN context_lists : context_lists[k] = iterations
      [] OTHER -> TRUE

\* C26: a later run of the same agent starts from a new agent state
\* (stage idle, step count 0, empty history) and from nothing of the
\* earlier execute; its context is created with empty lists, and all
\* through it the lists, the step count and the state history hold only
\* what this run has done.  The later run therefore starts where a first
\* run starts, and the same responses lead it to the same result.
C26_StateScopedToRun ==
    ran_before =>
        /\ apc = "start" => StartOfRun
        /\ (apc = "loop" /\ iterations = 0
               /\ architecture \in ListStrategies) =>
              /\ state = Initializing(NewAgentState)
              /\ context_lists = ContextLists(architecture)
        /\ (apc # "start" /\ architecture \in ListStrategies) =>
              ListsOfThisRun
        /\ state.step_count <= iterations
        /\ architecture \in {"lat", "rewoo"} => state.step_count = 0
        /\ Len(state.history) <= Len(gateway_calls) + iterations + 2
        /\ (architecture \in {"ooda", "bdi"} /\ apc = "loop") =>
              /\ Len(state.history) = iterations
              /\ state.step_count = iterations
        /\ apc = "returned" =>
              /\ run_value.final_state = state
              /\ run_value.intermediate_steps = intermediate_steps

\* an ooda agent that has run before is one pass into a later run: its
\* state history and its context lists hold the one entry of this run
C26_Witness ==
    /\ ran_before
    /\ apc = "loop"
    /\ architecture = "ooda"
    /\ max_iterations = 2
    /\ iterations = 1
    /\ Len(state.history) = 1
    /\ \A k \in DOMAIN context_lists : context_lists[k] = 1

(***************************************************************************)
(* Claims about rewoo's join.                                              *)
(***************************************************************************)
\* the places of the gateway calls of a stage
CallsOf(stage) ==
    {i \in 1..Len(gateway_calls) : gateway_calls[i].stage = stage}

\* C27: in rewoo the Solver is called once, after every worker has
\* returned: its call is the last call and every worker call comes before
\* it.  The workers are asked in increasing worker number 1, 2, ..., the
\* Solver prompt holds their results under those numbers in that order,
\* and there are at most num_workers worker calls (num_workers is a count:
\* 0 or more).
C27_SolverAfterOrderedWorkers ==
    architecture = "rewoo" =>
        /\ Cardinality(CallsOf("worker")) = Len(worker_results)
        /\ Len(worker_results) <= num_workers
        /\ \A i \in 1..Len(worker_results) : worker_results[i].worker = i
        /\ CallsOf("solution") = {} =>
              /\ apc # "done"
              /\ solver_prompt = <<>>
        /\ CallsOf("solution") # {} =>
              /\ CallsOf("solution") = {Len(gateway_calls)}
              /\ Len(worker_results) = worker_tasks
              /\ Len(solver_prompt) = Len(worker_results)
              /\ \A i \in 1..Len(solver_prompt) :
                    /\ solver_prompt[i].label = worker_results[i].worker
                    /\ solver_prompt[i].result = worker_results[i].result

\* two workers have returned different results and the Solver has been
\* asked
C27_Witness ==
    /\ architecture = "rewoo"
    /\ apc = "done"
    /\ num_workers = 2
    /\ Len(solver_prompt) = 2
    /\ solver_prompt[1].result # solver_prompt[2].result

(***************************************************************************)
(* Claims about a failing gateway.                                         *)
(***************************************************************************)
\* the places of the gateway calls that raised
RaisedCalls ==
    {i \in 1..Len(gateway_calls) : gateway_calls[i].response = "raised"}

\* C28: a failure of the gateway in any stage ends the run by that
\* exception: the failing call is the last call of the run, execute and
\* run are left with the gateway's exception, and run has returned no
\* value.
C28_FailurePropagates ==
    RaisedCalls # {} =>
        /\ RaisedCalls = {Len(gateway_calls)}
        /\ apc = "raised"
        /\ aerror = "GatewayError"
        /\ run_value = <<>>

\* C28, the step: after a failing call the run does nothing more.
C28_NothingAfterFailure ==
    RaisedCalls # {} => UNCHANGED vars

C28_GatewayFailureEndsRun ==
    [](C28_FailurePropagates) /\ [][C28_NothingAfterFailure]_vars

\* the completion check of the second pass of an ooda run has failed
\* after its four stages were recorded
C28_Witness ==
    /\ architecture = "ooda"
    /\ apc = "raised"
    /\ iterations = 2
    /\ Len(intermediate_steps) = 8
    /\ gateway_calls[Len(gateway_calls)] = Call("check_completion", "raised")
    /\ run_value = <<>>

(***************************************************************************)
(* Claims about cycle detection.                                           *)
(***************************************************************************)
\* the number of times the agent of a node was run
RunsOf(n) == Cardinality({i \in 1..Len(call_log) : call_log[i] = n})

\* C29: once execute has validated a workflow without dangling ids, it
\* has raised the circular-dependency error if and only if some node
\* transitively depends on itself; a graph without such a node is
\* accepted whatever paths and repetitions its dependency lists hold,
\* no agent of it is run twice, and when execute returns every node has
\* been run and stored exactly once.
C29_CycleDetectionExact ==
    (wpc # "idle" /\ ~HasDangling) =>
        /\ (werror = "cycle") <=> HasDepCycle
        /\ werror = "cycle" => wpc = "raised" /\ call_log = <<>>
        /\ \A n \in DOMAIN nodes : RunsOf(n) <= 1 /\ writes[n] <= 1
        /\ wpc = "done" =>
              \A n \in DOMAIN nodes : RunsOf(n) = 1 /\ writes[n] = 1

\* n3 depends on n1 directly and through n2, n2 lists n1 only; the
\* workflow has run to its end
C29_Witness ==
    /\ wpc = "done"
    /\ DOMAIN nodes = {"n1", "n2", "n3"}
    /\ nodes["n1"].dependencies = <<>>
    /\ nodes["n2"].dependencies = <<"n1">>
    /\ nodes["n3"].dependencies = <<"n2", "n1">>
    /\ call_log = <<"n1", "n2", "n3">>
    /\ writes["n1"] = 1

(***************************************************************************)
(* Claims about the step trace.                                            *)
(***************************************************************************)
\* the entries one pass of the loop appends, in order
PassEntries ==
    IF architecture = "ooda"
    THEN <<"observation", "orientation", "decision", "action">>
    ELSE <<"beliefs", "desires", "intentions", "actions", "results">>

\* the trace repeats the entries of a pass, in order
RepeatsPassEntries ==
    \A i \in 1..Len(intermediate_steps) :
        intermediate_steps[i] = PassEntries[((i - 1) % Len(PassEntries)) + 1]

\* C30, the shape: in ooda and bdi the trace repeats the entries of a
\* pass in their fixed order (four for ooda, five for bdi); while the run
\* has not failed its length is the number of entries of a pass times
\* iterations, and every completion check, one that fails included, was
\* asked after all entries of its pass were appended.
C30_FixedShape ==
    architecture \in {"ooda", "bdi"} =>
        LET checks == Cardinality(CallsOf("check_completion"))
        IN  /\ RepeatsPassEntries
            /\ Len(intermediate_steps) >= Len(PassEntries) * checks
            /\ Len(intermediate_steps) <= Len(PassEntries) * iterations
            /\ checks <= iterations
            /\ apc # "raised" =>
                  /\ Len(intermediate_steps) =
                        Len(PassEntries) * iterations
                  /\ checks = iterations

\* C30, the step: the trace only grows at its end.
C30_AppendOnly ==
    /\ Len(intermediate_steps') >= Len(intermediate_steps)
    /\ SubSeq(intermediate_steps', 1, Len(intermediate_steps))
          = intermediate_steps

C30_TraceShape == [](C30_FixedShape) /\ [][C30_AppendOnly]_vars

\* a bdi run has finished its second pass
C30_Witness ==
    /\ architecture = "bdi"
    /\ apc = "loop"
    /\ iterations = 2
    /\ Len(intermediate_steps) = 10
    /\ intermediate_steps[10] = "results"
    /\ gateway_calls[Len(gateway_calls)].stage = "check_completion"

(***************************************************************************)
(* Claims about lat.                                                       *)
(***************************************************************************)
\* the loop of lat is over
LatLoopOver == apc \in {"after_loop", "done", "returned"}

\* C31: in lat the node selections, the selected path and the passes of
\* the loop are equal in number and at most max_depth; every terminal
\* check follows a selection, and a check that answers yes is the last
\* call of the loop; a loop with max_depth >= 1 selects at least one
\* node; once execute has returned, one best-path call and then one
\* output-generation call are the last two calls, whether or not a check
\* answered yes, and the result reports the length of the path.
C31_LatLoopShape ==
    architecture = "lat" =>
        LET selections == CallsOf("node_selection")
            checks == CallsOf("is_terminal_state")
            n == Len(gateway_calls)
        IN  /\ Cardinality(selections) = iterations
            /\ Len(current_path) = iterations
            /\ iterations <= max_iterations
            /\ Cardinality(checks) = iterations
            /\ \A i \in checks :
                  gateway_calls[i].response = "yes" =>
                     /\ \A j \in selections \cup checks : j <= i
                     /\ apc # "loop"
            /\ (apc = "loop" /\ iterations < max_iterations) =>
                  \A i \in checks : gateway_calls[i].response = "no"
            /\ (LatLoopOver /\ max_iterations >= 1) => iterations >= 1
            /\ apc \in {"start", "loop", "after_loop"} =>
                  /\ CallsOf("best_path_selection") = {}
                  /\ CallsOf("output_generation") = {}
            /\ apc \in {"done", "returned"} =>
                  /\ CallsOf("best_path_selection") = {n - 1}
                  /\ CallsOf("output_generation") = {n}
            /\ (apc = "returned" /\ ~format_output) =>
                  run_value.metadata.path_length = iterations

\* a lat run with max_depth 2 whose first terminal check answered yes has
\* returned after one selection
C31_Witness ==
    /\ architecture = "lat"
    /\ apc = "returned"
    /\ ~format_output
    /\ max_iterations = 2
    /\ iterations = 1
    /\ run_value.metadata.path_length = 1
    /\ \E i \in CallsOf("is_terminal_state") :
          gateway_calls[i].response = "yes"

(***************************************************************************)
(* Claims about the guard of a node.                                       *)
(***************************************************************************)
\* the nodes that come before n in the execution order
Earlier(n) == {execution_order[i] : i \in 1..(Pos(execution_order, n) - 1)}

\* the loop of execute has got to n and is past its guard
PastGuard(n) ==
    /\ n \in Range(execution_order)
    /\ \/ Pos(execution_order, n) < idx
       \/ /\ Pos(execution_order, n) = idx
          /\ (wpc = "calling" \/ run_raised = n)

\* the results of the nodes that were executed before the loop got to n
ResultsBefore(n) ==
    [k \in DOMAIN results \cap Earlier(n) |-> results[k]]

\* C32: the guard of a node is evaluated once in an execute, when the loop
\* gets to the node and before its input is built (a node whose guard
\* was false has no input); it is evaluated on the initial input merged
\* with the results stored so far, which are keyed by node id, are those
\* of every node executed earlier in the order, and override an entry of
\* the initial input under the same key.
C32_GuardOnceOnInputAndResults ==
    \A n \in NodeIds :
        /\ guard_evals[n] <= 1
        /\ guard_evals[n] = 1 <=> n \in DOMAIN guard_arg
        /\ guard_evals[n] = 1 <=>
              (n \in DOMAIN nodes /\ nodes[n].has_condition /\ PastGuard(n))
        /\ n \in skipped => n \notin DOMAIN node_input
        /\ n \in DOMAIN guard_arg =>
              /\ guard_arg[n] = DictMerge(input_data, ResultsBefore(n))
              /\ DOMAIN guard_arg[n] =
                    DOMAIN input_data \cup
                    (Earlier(n) \cap Range(call_log))
              /\ \A k \in Earlier(n) \cap Range(call_log) :
                    guard_arg[n][k] =
                       StoredResult(nodes, k, RunResult(k))

\* the guard of n2 has seen the result of n1, which n2 does not depend
\* on, in the place of the initial entry under the key n1
C32_Witness ==
    /\ wpc = "done"
    /\ "n2" \in DOMAIN guard_arg
    /\ "n1" \in DOMAIN input_data
    /\ "n1" \in DOMAIN results
    /\ "n1" \notin DepSet("n2")
    /\ guard_arg["n2"]["n1"] = results["n1"]
    /\ guard_arg["n2"]["n1"] # input_data["n1"]

\* the part of C33 that holds in every state
C33_Inv ==
    /\ \A n \in skipped :
          /\ nodes[n].has_condition
          /\ n \in DOMAIN guard_arg
          /\ n \notin Range(call_log)
          /\ writes[n] = 0
    /\ \A n \in Range(execution_order) :
          Pos(execution_order, n) < idx =>
             (n \in skipped) # (n \in Range(call_log))
    /\ \A m \in DOMAIN node_input :
          /\ DOMAIN node_input[m] =
                DOMAIN input_data \cup
                {nodes[d].name : d \in DepSet(m) \ skipped}
          /\ \A k \in DOMAIN node_input[m] :
                /\ node_input[m][k] # NoValue
                /\ \A d \in DepSet(m) \cap skipped :
                      node_input[m][k] # ExpectedStored(d)

\* a skipped node stays skipped and is not executed by any later step
C33_Step ==
    \A n \in skipped : n \in skipped' /\ n \notin Range(call_log')

\* C33: a node is skipped by its own guard only: every node the loop has
\* passed was either skipped by its guard or executed, whatever became of
\* its dependencies; the input of an executed node has the keys of the
\* initial input and of the display names of its dependencies that were
\* not skipped, and no value that comes from a skipped dependency; a
\* skipped node is not executed later in the execute.
C33_SkipDoesNotPropagate == [](C33_Inv) /\ [][C33_Step]_vars

\* a node with a guard was executed after one of its dependencies was
\* skipped, and its input has no key of the display name of that dependency
C33_Witness ==
    /\ wpc = "done"
    /\ \E n \in skipped : \E m \in Range(call_log) :
          /\ n \in DepSet(m)
          /\ m \in DOMAIN guard_arg
          /\ m \in DOMAIN returned.of
          /\ nodes[n].name \notin DOMAIN node_input[m]
          /\ DOMAIN node_input[m] = DOMAIN input_data

(***************************************************************************)
(* Claims about the merge of dependency results.                           *)
(***************************************************************************)
\* the positions of the dependency list of m whose node was executed
RanDeps(m) ==
    {i \in DOMAIN nodes[m].dependencies :
        nodes[m].dependencies[i] \notin skipped}

\* the last position of RanDeps(m) whose node has the display name of the
\* node at position i
LastSameNamed(m, i) ==
    LET deps == nodes[m].dependencies
        same == {j \in RanDeps(m) :
                    nodes[deps[j]].name = nodes[deps[i]].name}
    IN  CHOOSE j \in same : \A l \in same : l <= j

\* C39: in the input of an executed node the key of an executed
\* dependency's display name holds the result of the last executed
\* dependency of that name in the dependency list: it never holds the
\* initial value of an equal key of initial_input, and the result of an
\* earlier listed dependency of the same name is nowhere in the input.
C39_LastWriterWins ==
    \A m \in DOMAIN node_input :
        LET deps == nodes[m].dependencies
        IN  \A i \in RanDeps(m) :
               LET k == nodes[deps[i]].name
                   last == deps[LastSameNamed(m, i)]
               IN  /\ k \in DOMAIN node_input[m]
                   /\ node_input[m][k] = ExpectedStored(last)
                   /\ k \in DOMAIN input_data =>
                         node_input[m][k] # input_data[k]
                   /\ deps[i] # last =>
                         \A x \in DOMAIN node_input[m] :
                            node_input[m][x] # ExpectedStored(deps[i])

\* a node has two executed dependencies of one display name, which is
\* also a key of initial_input; its input holds the result of the second
C39_Witness ==
    /\ wpc = "done"
    /\ \E m \in DOMAIN node_input :
          LET deps == nodes[m].dependencies
          IN  /\ Len(deps) = 2
              /\ deps[1] # deps[2]
              /\ RanDeps(m) = {1, 2}
              /\ nodes[deps[1]].name = nodes[deps[2]].name
              /\ nodes[deps[1]].name \in DOMAIN input_data
              /\ node_input[m][nodes[deps[2]].name] =
                    ExpectedStored(deps[2])

(***************************************************************************)
(* Claims about what execute and add_node leave alone.                     *)
(***************************************************************************)
\* the nodes whose agent.run has returned in the running execute
ReturnedCalls ==
    Range(call_log) \
        (IF wpc = "calling" \/ run_raised # "none"
         THEN {execution_order[idx]} ELSE {})

\* the results mapping holds the results of the running execute only
C38_Inv ==
    /\ (wpc \in {"loop", "calling", "done"} \/ run_raised # "none") =>
          /\ DOMAIN results = ReturnedCalls
          /\ \A k \in DOMAIN results : results[k] = ExpectedStored(k)
    /\ wpc = "done" => returned.of = results

\* execute changes neither the graph nor the mapping it was handed, and
\* add_node adds one node
C38_Step ==
    /\ (wpc # "idle" \/ wpc' # "idle") =>
          /\ nodes' = nodes
          /\ agents' = agents
    /\ wpc # "idle" => input_data' = input_data
    /\ nodes' # nodes =>
          /\ \E id \in NodeIds \ DOMAIN nodes :
                DOMAIN nodes' = DOMAIN nodes \cup {id}
          /\ \A k \in DOMAIN nodes : nodes'[k] = nodes[k]
    /\ (wpc = "idle" /\ wpc' = "loop") => results' = EmptyMap

\* C38: from the start of an execute to its end, successful or failed,
\* the node mapping (every dependency list with it) and the agent mapping
\* do not change, nor does the initial_input mapping; an execute starts
\* with an empty results mapping, and what it holds and returns are the
\* results of the nodes it has run itself; add_node adds one node and
\* changes no node that exists.
C38_ExecuteLeavesGraphAlone == [](C38_Inv) /\ [][C38_Step]_vars

\* an execute has returned results, and the next execute of the workflow
\* has started with an empty results mapping
C38_Witness ==
    /\ wpc = "loop"
    /\ idx = 1
    /\ results = EmptyMap
    /\ returned # NoValue
    /\ DOMAIN returned.of # {}
    /\ Cardinality(DOMAIN nodes) >= 2

(***************************************************************************)
(* Claims about a workflow built in dependency order.                      *)
(***************************************************************************)
\* C35: a workflow whose nodes were all added with dependency lists of
\* ids handed out before passes validation, its execution order is the
\* order in which the nodes were added, and execute runs the nodes in
\* that order.
C35_BuiltInOrderIsValid ==
    /\ wpc = "idle" =>
          /\ Validate(nodes, agents) = "none"
          /\ ~GetExecutionOrder(nodes).err
          /\ GetExecutionOrder(nodes).result = KeysOf(nodes)
    /\ wpc # "idle" =>
          /\ wpc # "raised"
          /\ werror = "none"
          /\ execution_order = KeysOf(nodes)
    /\ wpc = "done" => call_log = KeysOf(nodes)

\* three nodes, the third one depending on the second and the first (in
\* this order) and the second on the first, have run in the order they
\* were added in
C35_Witness ==
    /\ wpc = "done"
    /\ DOMAIN nodes = {"n1", "n2", "n3"}
    /\ nodes["n2"].dependencies = <<"n1">>
    /\ nodes["n3"].dependencies = <<"n2", "n1">>
    /\ execution_order = <<"n1", "n2", "n3">>
    /\ call_log = <<"n1", "n2", "n3">>

(***************************************************************************)
(* Claims about a completion signalled in the last pass.                   *)
(***************************************************************************)
\* the latest termination check of the run has signalled completion
Signalled ==
    IF architecture = "react"
    THEN /\ step_responses # <<>>
         /\ GetNextStep(step_responses[Len(step_responses)]).final_answer
               # <<>>
    ELSE CheckCompletion(check_response).is_complete

\* the final answer the latest termination check has extracted
ExtractedAnswer ==
    IF architecture = "react"
    THEN GetNextStep(step_responses[Len(step_responses)]).final_answer
    ELSE CheckCompletion(check_response).final_answer

\* the part of C34 that holds in every state
C34_Inv ==
    architecture \in BudgetStrategies =>
        /\ is_done <=> (iterations >= 1 /\ Signalled)
        /\ is_done => iterations <= max_iterations
        /\ (is_done /\ apc \in {"done", "returned"}) =>
              /\ output = ExtractedAnswer
              /\ Notice \notin Range(output)
              /\ PartialCalls = 0
              /\ aerror = "none"
        /\ PartialCalls > 0 =>
              /\ PartialCalls = 1
              /\ ~is_done
              /\ iterations = max_iterations

\* once a pass has signalled completion there is no further pass and no
\* further gateway call
C34_Step ==
    (architecture \in BudgetStrategies /\ is_done) =>
        /\ is_done'
        /\ iterations' = iterations
        /\ gateway_calls' = gateway_calls
        /\ output' = output

\* C34: in react, ooda, bdi and raise a pass that signals completion ends
\* the loop, also when it is the pass that uses up the budget: the run
\* returns the final answer extracted from that signal, without the
\* notice and without a partial-answer call; a partial-answer call is
\* made only by a run whose budget is used up and in which no pass has
\* signalled completion.
C34_LastIterationCompletes == [](C34_Inv) /\ [][C34_Step]_vars

\* an ooda run with a budget of 2 has returned completed after its second
\* pass
C34_Witness ==
    /\ architecture = "ooda"
    /\ apc = "done"
    /\ max_iterations = 2
    /\ iterations = 2
    /\ is_done
    /\ PartialCalls = 0
    /\ output = CheckCompletion(check_response).final_answer

(***************************************************************************)
(* Claims about the groups of the parsers.                                 *)
(***************************************************************************)
\* the matches of the pattern of labels[k] that have content
NonEmptyMatches(arch, k) ==
    SelectSeq(FindAll(parse_text, Labels(arch)[k],
                      Terminators(Labels(arch), k), 1),
              LAMBDA m : m.content # <<>>)

\* C36: the parsers of react, ooda, bdi and lat return at most one group
\* whatever the text repeats; a group of ooda, bdi and lat has every
\* field; react returns a group exactly when the text has a thought with
\* content, and the group holds the last thought with content, the last
\* action with content if there is one, and then also the first
\* observation with content if there is one.
C36_AtMostOneGroup ==
    (apc = "parsed" /\ architecture \in GroupedStrategies) =>
        /\ Len(parsed.groups) <= 1
        /\ \A i \in DOMAIN parsed.groups :
              architecture # "react" =>
                 DOMAIN parsed.groups[i] = Range(Fields(architecture))
        /\ architecture = "react" =>
              LET thoughts == NonEmptyMatches("react", 1)
                  actions == NonEmptyMatches("react", 2)
                  observations == NonEmptyMatches("react", 3)
              IN  /\ Len(parsed.groups) = 1 <=> thoughts # <<>>
                  /\ \A i \in DOMAIN parsed.groups :
                        LET g == parsed.groups[i]
                        IN  /\ g.thought = thoughts[Len(thoughts)]
                            /\ "action" \in DOMAIN g <=> actions # <<>>
                            /\ "action" \in DOMAIN g =>
                                  g.action = actions[Len(actions)]
                            /\ "observation" \in DOMAIN g <=>
                                  (actions # <<>> /\ observations # <<>>)
                            /\ "observation" \in DOMAIN g =>
                                  g.observation = observations[1]

\* a react text with two thoughts and two actions with content around an
\* observation has given one cycle: the second thought and the second
\* action with the observation that stands before both
C36_Witness ==
    /\ apc = "parsed"
    /\ architecture = "react"
    /\ Len(NonEmptyMatches("react", 1)) = 2
    /\ Len(NonEmptyMatches("react", 2)) = 2
    /\ Len(NonEmptyMatches("react", 3)) = 1
    /\ Len(parsed.groups) = 1
    /\ parsed.groups[1].thought = NonEmptyMatches("react", 1)[2]
    /\ parsed.groups[1].action = NonEmptyMatches("react", 2)[2]
    /\ parsed.groups[1].thought.at > parsed.groups[1].observation.at
    /\ parsed.groups[1].action.at > parsed.groups[1].observation.at

(***************************************************************************)
(* Claims about tool dispatch.                                             *)
(***************************************************************************)
\* the places of the supplied list whose tool has exactly this name
ExactPlaces(name) == {i \in DOMAIN registered : registered[i].name = name}

\* C37: a dispatch finds the first tool of the list supplied (Before, the
\* tools handed over up to the dispatch) whose name
\* equals the asked name when case is ignored, and none when there is no
\* such tool; the registry holds, under every exact name supplied, the
\* last tool supplied under it.
C37_DispatchFirstInList ==
    /\ got.op = "dispatch" =>
          LET places == {i \in DOMAIN Before :
                            LowerName(Before[i].name) = LowerName(got.name)}
          IN  /\ places = {} => got.result = None
              /\ places # {} =>
                    /\ got.result \in {Before[i] : i \in places}
                    /\ \A i \in places : got.result.object <= i
    /\ \A name \in ToolNames :
          Get(registry, name) =
             IF ExactPlaces(name) = {} THEN None
             ELSE registered[CHOOSE i \in ExactPlaces(name) :
                                \A j \in ExactPlaces(name) : j <= i]

\* "Search" was supplied before "search": a dispatch of "search" has found
\* the tool named "Search", which is not the tool the registry holds under
\* "search"
C37_Witness ==
    /\ got.op = "dispatch"
    /\ got.name = "search"
    /\ got.result.name = "Search"
    /\ got.after = Len(registered)
    /\ ExactPlaces("search") # {}
    /\ Get(registry, "search") # got.result
    /\ Get(registry, "search").name = "search"

(***************************************************************************)
(* Claims about the conversation buffer.                                   *)
(***************************************************************************)
\* C40 (as stated): whatever max_messages >= 0 the buffer was made with,
\* it holds at most max_messages messages, and they are the messages added
\* last, in the order they were added in.
C40_Original ==
    /\ Len(messages) <= max_messages
    /\ messages = SubSeq(added, Len(added) - Len(messages) + 1, Len(added))

\* the same for the buffers made with max_messages >= 1
C40_BoundedFromOne ==
    max_messages >= 1 =>
        /\ Len(messages) <= max_messages
        /\ Len(messages) = IF Len(added) <= max_messages
                            THEN Len(added) ELSE max_messages
        /\ messages =
              SubSeq(added, Len(added) - Len(messages) + 1, Len(added))

\* a buffer made with max_messages = 0 keeps every message
C40_ZeroKeepsAll == max_messages = 0 => messages = added

====
